---- MODULE Spec2Model ----
(***************************************************************************)
(* A model of .codex/skills/babysit-pr/scripts/gh_pr_watch.py: the PR      *)
(* babysitting watcher (check summarizer, review item normalizer, retry    *)
(* budget, action recommender, state store).                               *)
(*                                                                         *)
(* Representation of Python values:                                        *)
(*   - None is the string "None" where the other values are strings, and   *)
(*     NoneId where the other values are run ids;                          *)
(*   - a raw GitHub id is a natural number, 0 standing for a missing or    *)
(*     falsy id; str(id) of a present id is modelled by the same number    *)
(*     (the ids used have one digit, so the order of the strings is the    *)
(*     order of the numbers);                                              *)
(*   - a timestamp string is a natural number, 0 standing for "", ordered  *)
(*     as ISO-8601 strings are;                                            *)
(*   - a list is a sequence, a dict a function or a record.                *)
(***************************************************************************)
EXTENDS Integers, Sequences, FiniteSets, TLC

(***************************************************************************)
(* Module constants of the script.                                         *)
(***************************************************************************)
FAILED_RUN_CONCLUSIONS ==
    {"failure", "timed_out", "cancelled", "action_required", "startup_failure", "stale"}

PENDING_CHECK_STATES ==
    {"QUEUED", "IN_PROGRESS", "PENDING", "WAITING", "REQUESTED"}

TRUSTED_AUTHOR_ASSOCIATIONS ==
    {"OWNER", "MEMBER", "COLLABORATOR"}

MERGE_BLOCKING_REVIEW_DECISIONS ==
    {"REVIEW_REQUIRED", "CHANGES_REQUESTED"}

MERGE_CONFLICT_OR_BLOCKING_STATES ==
    {"BLOCKED", "DIRTY", "DRAFT", "UNKNOWN"}

(***************************************************************************)
(* Bounds of the model.                                                    *)
(***************************************************************************)
\* Largest --max-flaky-retries an invocation is given, and largest
\* retries_used handed to recommend_actions.
MaxRetries == 3

\* Largest failed_count handed to recommend_actions.
MaxFailed == 2

\* Largest pending_count handed to recommend_actions.
MaxPending == 1

\* --max-flaky-retries of a watcher instance that has a retry budget.
MaxBudget == 2

\* Largest number of review items the gateway holds at once.
MaxItems == 2

\* Largest number of check entries the gateway reports.
MaxChecks == 2

\* Largest number of workflow runs the gateway reports.
MaxRuns == 2

\* run.get("id") of a workflow run that carries no id (None).
NoneId == -1

(***************************************************************************)
(* Generic helpers.                                                        *)
(***************************************************************************)
Range(s) == {s[i] : i \in DOMAIN s}

Min(a, b) == IF a <= b THEN a ELSE b

\* sorted(set) of a set of ids.
RECURSIVE SortedIds(_)
SortedIds(S) ==
    IF S = {} THEN <<>>
    ELSE LET m == CHOOSE x \in S : \A y \in S : x <= y
         IN  <<m>> \o SortedIds(S \ {m})

(***************************************************************************)
(* Merge readiness and the action recommender (pure functions).            *)
(***************************************************************************)
RECURSIVE UniqueFrom(_, _)
UniqueFrom(actions, out) ==
    IF actions = <<>> THEN out
    ELSE IF Head(actions) \in Range(out) THEN UniqueFrom(Tail(actions), out)
    ELSE UniqueFrom(Tail(actions), Append(out, Head(actions)))

unique_actions(actions) == UniqueFrom(actions, <<>>)

is_pr_ready_to_merge_NoMergeState(pr, checks_summary, new_review_items) ==
    IF pr.closed \/ pr.merged THEN FALSE
    ELSE IF ~checks_summary.all_terminal THEN FALSE
    ELSE IF checks_summary.failed_count > 0 \/ checks_summary.pending_count > 0 THEN FALSE
    ELSE IF new_review_items # <<>> THEN FALSE
    ELSE IF pr.mergeable # "MERGEABLE" THEN FALSE
    ELSE IF pr.review_decision \in MERGE_BLOCKING_REVIEW_DECISIONS THEN FALSE
    ELSE TRUE

is_pr_ready_to_merge(pr, checks_summary, new_review_items) ==
    IF pr.closed \/ pr.merged THEN FALSE
    ELSE IF ~checks_summary.all_terminal THEN FALSE
    ELSE IF checks_summary.failed_count > 0 \/ checks_summary.pending_count > 0 THEN FALSE
    ELSE IF new_review_items # <<>> THEN FALSE
    ELSE IF pr.mergeable # "MERGEABLE" THEN FALSE
    ELSE IF pr.merge_state_status \in MERGE_CONFLICT_OR_BLOCKING_STATES THEN FALSE
    ELSE IF pr.review_decision \in MERGE_BLOCKING_REVIEW_DECISIONS THEN FALSE
    ELSE TRUE

\* The closed-or-merged branch of recommend_actions.
closed_actions_NoReview(new_review_items) ==
    <<"stop_pr_closed">>

closed_actions(new_review_items) ==
    LET a0 == IF new_review_items # <<>> THEN <<"process_review_comment">> ELSE <<>>
    IN  Append(a0, "stop_pr_closed")

\* The failed-checks block of recommend_actions, appending to `actions`.
ci_failure_actions_OffByOne(actions, checks_summary, failed_runs, retries_used, max_retries) ==
    IF checks_summary.failed_count > 0
    THEN IF checks_summary.all_terminal /\ retries_used > max_retries
         THEN Append(actions, "stop_exhausted_retries")
         ELSE LET d == Append(actions, "diagnose_ci_failure")
              IN  IF checks_summary.all_terminal /\ failed_runs # <<>>
                     /\ retries_used <= max_retries
                  THEN Append(d, "retry_failed_checks")
                  ELSE d
    ELSE actions

\* ci_failure_actions that still asks for a diagnosis when the budget is used up.
ci_failure_actions_DiagnoseThenStop(actions, checks_summary, failed_runs, retries_used, max_retries) ==
    IF checks_summary.failed_count > 0
    THEN LET d == Append(actions, "diagnose_ci_failure")
         IN  IF checks_summary.all_terminal /\ retries_used >= max_retries
             THEN Append(d, "stop_exhausted_retries")
             ELSE IF checks_summary.all_terminal /\ failed_runs # <<>>
                     /\ retries_used < max_retries
                  THEN Append(d, "retry_failed_checks")
                  ELSE d
    ELSE actions

\* ci_failure_actions that recommends the retry while checks are running.
ci_failure_actions_RetryWhilePending(actions, checks_summary, failed_runs, retries_used, max_retries) ==
    IF checks_summary.failed_count > 0
    THEN IF checks_summary.all_terminal /\ retries_used >= max_retries
         THEN Append(actions, "stop_exhausted_retries")
         ELSE LET d == Append(actions, "diagnose_ci_failure")
              IN  IF failed_runs # <<>> /\ retries_used < max_retries
                  THEN Append(d, "retry_failed_checks")
                  ELSE d
    ELSE actions

ci_failure_actions(actions, checks_summary, failed_runs, retries_used, max_retries) ==
    IF checks_summary.failed_count > 0
    THEN IF checks_summary.all_terminal /\ retries_used >= max_retries
         THEN Append(actions, "stop_exhausted_retries")
         ELSE LET d == Append(actions, "diagnose_ci_failure")
              IN  IF checks_summary.all_terminal /\ failed_runs # <<>>
                     /\ retries_used < max_retries
                  THEN Append(d, "retry_failed_checks")
                  ELSE d
    ELSE actions

\* recommend_actions that puts the review action after the CI actions.
recommend_actions_ReviewLast(pr, checks_summary, failed_runs, new_review_items, retries_used, max_retries) ==
    IF pr.closed \/ pr.merged
    THEN unique_actions(closed_actions(new_review_items))
    ELSE IF is_pr_ready_to_merge(pr, checks_summary, new_review_items)
    THEN unique_actions(<<"stop_ready_to_merge">>)
    ELSE LET a1 == ci_failure_actions(<<>>, checks_summary, failed_runs, retries_used, max_retries)
             a2 == IF new_review_items # <<>> THEN Append(a1, "process_review_comment") ELSE a1
         IN  unique_actions(IF a2 = <<>> THEN <<"idle">> ELSE a2)

\* recommend_actions without the idle fallback.
recommend_actions_NoIdle(pr, checks_summary, failed_runs, new_review_items, retries_used, max_retries) ==
    IF pr.closed \/ pr.merged
    THEN unique_actions(closed_actions(new_review_items))
    ELSE IF is_pr_ready_to_merge(pr, checks_summary, new_review_items)
    THEN unique_actions(<<"stop_ready_to_merge">>)
    ELSE LET a1 == IF new_review_items # <<>> THEN <<"process_review_comment">> ELSE <<>>
         IN  unique_actions(ci_failure_actions(a1, checks_summary, failed_runs,
                                               retries_used, max_retries))

\* recommend_actions without the merge-readiness rule.
recommend_actions_NoReadyRule(pr, checks_summary, failed_runs, new_review_items, retries_used, max_retries) ==
    IF pr.closed \/ pr.merged
    THEN unique_actions(closed_actions(new_review_items))
    ELSE LET a1 == IF new_review_items # <<>>
                   THEN <<"process_review_comment">> ELSE <<>>
             a2 == ci_failure_actions(a1, checks_summary, failed_runs,
                                      retries_used, max_retries)
         IN  unique_actions(IF a2 = <<>> THEN <<"idle">> ELSE a2)

recommend_actions(pr, checks_summary, failed_runs, new_review_items, retries_used, max_retries) ==
    IF pr.closed \/ pr.merged
    THEN unique_actions(closed_actions(new_review_items))
    ELSE IF is_pr_ready_to_merge(pr, checks_summary, new_review_items)
    THEN unique_actions(<<"stop_ready_to_merge">>)
    ELSE LET a1 == IF new_review_items # <<>>
                   THEN <<"process_review_comment">> ELSE <<>>
             a2 == ci_failure_actions(a1, checks_summary, failed_runs,
                                      retries_used, max_retries)
         IN  unique_actions(IF a2 = <<>> THEN <<"idle">> ELSE a2)

(***************************************************************************)
(* Check summarizer.                                                       *)
(***************************************************************************)
\* str.lower() and str.upper(), on the strings the model uses.
lower(s) ==
    CASE s = "PENDING" -> "pending"
      [] s = "FAIL" -> "fail"
      [] s = "PASS" -> "pass"
      [] OTHER -> s

upper(s) ==
    CASE s = "queued" -> "QUEUED"
      [] s = "in_progress" -> "IN_PROGRESS"
      [] s = "pending" -> "PENDING"
      [] s = "closed" -> "CLOSED"
      [] s = "owner" -> "OWNER"
      [] OTHER -> s

is_pending_check_BucketOnly(check) == lower(check.bucket) = "pending"

is_pending_check(check) ==
    lower(check.bucket) = "pending" \/ upper(check.state) \in PENDING_CHECK_STATES

summarize_checks(checks) ==
    LET pending == Cardinality({i \in DOMAIN checks : is_pending_check(checks[i])})
        failed == Cardinality({i \in DOMAIN checks : lower(checks[i].bucket) = "fail"})
        passed == Cardinality({i \in DOMAIN checks : lower(checks[i].bucket) = "pass"})
    IN  [pending_count |-> pending,
         failed_count |-> failed,
         passed_count |-> passed,
         all_terminal |-> (pending = 0)]

(***************************************************************************)
(* PR metadata and workflow runs.                                          *)
(***************************************************************************)
\* The PR record built from `gh pr view` (number, url, repo and head_branch,
\* which identify the PR and never change, are left out).
resolve_pr(data) ==
    [head_sha |-> data.headRefOid,
     state |-> data.state,
     merged |-> data.mergedAt,
     closed |-> (data.closedAt \/ upper(data.state) = "CLOSED"),
     mergeable |-> data.mergeable,
     merge_state_status |-> data.mergeStateStatus,
     review_decision |-> data.reviewDecision]

\* str(run_id) as a sort key: "None" sorts after every string of digits.
RunIdKey(run_id) == IF run_id = NoneId THEN 1000 ELSE run_id

RECURSIVE InsertRun(_, _)
InsertRun(run, sorted) ==
    IF sorted = <<>> THEN <<run>>
    ELSE IF RunIdKey(run.run_id) < RunIdKey(Head(sorted).run_id) THEN <<run>> \o sorted
    ELSE <<Head(sorted)>> \o InsertRun(run, Tail(sorted))

RECURSIVE SortRuns(_)
SortRuns(runs) ==
    IF runs = <<>> THEN <<>>
    ELSE InsertRun(runs[Len(runs)], SortRuns(SubSeq(runs, 1, Len(runs) - 1)))

\* The workflow name, status and url of a run are left out: every run of the
\* model has the same workflow name, so the sort key is str(run_id).
failed_runs_from_workflow_runs(runs, head_sha) ==
    LET Failed(run) == run.head_sha = head_sha /\ run.conclusion \in FAILED_RUN_CONCLUSIONS
        kept == SelectSeq(runs, Failed)
    IN  SortRuns([i \in DOMAIN kept |->
                    [run_id |-> kept[i].id, conclusion |-> kept[i].conclusion]])

(***************************************************************************)
(* Review item normalizer.                                                 *)
(***************************************************************************)
Kinds == {"issue_comment", "review_comment", "review"}

\* The order of the kind strings: "issue_comment" < "review" < "review_comment".
KindRank(kind) ==
    CASE kind = "issue_comment" -> 1
      [] kind = "review" -> 2
      [] kind = "review_comment" -> 3

\* login.endswith("[bot]"), on the logins the model uses.
EndsWithBot(login) ==
    login \in {"chatgpt-codex-connector[bot]", "Codex-Review[bot]", "dependabot[bot]"}

\* any(keyword in login.lower() ...), on the logins the model uses.
HasReviewBotKeyword(login) ==
    login \in {"chatgpt-codex-connector[bot]", "Codex-Review[bot]", "codex-fan"}

\* normalize_issue_comments, normalize_review_comments and normalize_reviews:
\* the canonical record of each raw item (body, path, line and url left out).
normalize_items(kind, items) ==
    [i \in DOMAIN items |->
        [kind |-> kind,
         id |-> items[i].id,
         author |-> items[i].user,
         author_association |-> items[i].author_association,
         created_at |-> items[i].created_at]]

is_bot_login(login) == login # "" /\ EndsWithBot(login)

is_actionable_review_bot_login_AnyBot(login) == is_bot_login(login)

is_actionable_review_bot_login(login) ==
    IF ~is_bot_login(login) THEN FALSE ELSE HasReviewBotKeyword(login)

is_trusted_human_review_author(item, authenticated_login) ==
    IF item.author = "" THEN FALSE
    ELSE IF authenticated_login # "" /\ item.author = authenticated_login THEN TRUE
    ELSE upper(item.author_association) \in TRUSTED_AUTHOR_ASSOCIATIONS

\* The author test of the loop of fetch_new_review_items.
is_surfaceable_author(item, authenticated_login) ==
    IF item.author = "" THEN FALSE
    ELSE IF is_bot_login(item.author) THEN is_actionable_review_bot_login(item.author)
    ELSE is_trusted_human_review_author(item, authenticated_login)

ItemLess(a, b) ==
    \/ a.created_at < b.created_at
    \/ a.created_at = b.created_at /\ KindRank(a.kind) < KindRank(b.kind)
    \/ a.created_at = b.created_at /\ a.kind = b.kind /\ a.id < b.id

RECURSIVE InsertItem(_, _)
InsertItem(item, sorted) ==
    IF sorted = <<>> THEN <<item>>
    ELSE IF ItemLess(item, Head(sorted)) THEN <<item>> \o sorted
    ELSE <<Head(sorted)>> \o InsertItem(item, Tail(sorted))

RECURSIVE SortItems(_)
SortItems(items) ==
    IF items = <<>> THEN <<>>
    ELSE InsertItem(items[Len(items)], SortItems(SubSeq(items, 1, Len(items) - 1)))

\* The seen-set an item of this kind is looked up in and added to.
SeenField(kind) ==
    CASE kind = "issue_comment" -> "seen_issue_comment_ids"
      [] kind = "review_comment" -> "seen_review_comment_ids"
      [] kind = "review" -> "seen_review_ids"

\* The loop over all_items: acc = [seen: kind -> set of ids, new_items: list].
review_loop_SharedSeen(acc, item, authenticated_login) ==
    IF item.id = 0 THEN acc
    ELSE IF ~is_surfaceable_author(item, authenticated_login) THEN acc
    ELSE IF \E k \in Kinds : item.id \in acc.seen[k] THEN acc
    ELSE [seen |-> [acc.seen EXCEPT ![item.kind] = @ \cup {item.id}],
          new_items |-> Append(acc.new_items, item)]

review_loop_step(acc, item, authenticated_login) ==
    IF item.id = 0 THEN acc
    ELSE IF ~is_surfaceable_author(item, authenticated_login) THEN acc
    ELSE IF item.id \in acc.seen[item.kind] THEN acc
    ELSE [seen |-> [acc.seen EXCEPT ![item.kind] = @ \cup {item.id}],
          new_items |-> Append(acc.new_items, item)]

RECURSIVE review_loop(_, _, _)
review_loop(acc, items, authenticated_login) ==
    IF items = <<>> THEN acc
    ELSE review_loop(review_loop_step(acc, Head(items), authenticated_login),
                     Tail(items), authenticated_login)

\* The seen lists written back to the state after the loop.
store_seen_OnlyNew(state, seen) ==
    [state EXCEPT !.seen_issue_comment_ids =
                      SortedIds(seen["issue_comment"] \ Range(state.seen_issue_comment_ids)),
                  !.seen_review_comment_ids =
                      SortedIds(seen["review_comment"] \ Range(state.seen_review_comment_ids)),
                  !.seen_review_ids =
                      SortedIds(seen["review"] \ Range(state.seen_review_ids))]

store_seen(state, seen) ==
    [state EXCEPT !.seen_issue_comment_ids = SortedIds(seen["issue_comment"]),
                  !.seen_review_comment_ids = SortedIds(seen["review_comment"]),
                  !.seen_review_ids = SortedIds(seen["review"])]

\* fetch_new_review_items: payloads are the three paginated lists of the
\* gateway; the result is the new items and the state with its seen lists
\* rewritten (the code mutates `state` in place).
fetch_new_review_items(payloads, state, authenticated_login) ==
    LET all_items == normalize_items("issue_comment", payloads.issue_comment)
                     \o normalize_items("review_comment", payloads.review_comment)
                     \o normalize_items("review", payloads.review)
        seen0 == [k \in Kinds |-> Range(state[SeenField(k)])]
        done == review_loop([seen |-> seen0, new_items |-> <<>>], all_items,
                            authenticated_login)
    IN  [new_items |-> SortItems(done.new_items),
         state |-> store_seen(state, done.seen)]

(***************************************************************************)
(* State store and retry budget.                                           *)
(***************************************************************************)
\* The default state of load_state (pr, started_at and last_snapshot_at, an
\* identity and two timestamps nothing reads back, are left out).
DefaultState ==
    [last_seen_head_sha |-> "None",
     retries_by_sha |-> [s \in {} |-> 0],
     seen_issue_comment_ids |-> <<>>,
     seen_review_comment_ids |-> <<>>,
     seen_review_ids |-> <<>>]

\* The state file: absent, or present with a content whose shape is "object"
\* (a JSON object, held in data), "not_object" (JSON of another type) or
\* "not_json" (an empty or truncated file, or any other text).
NoFile == [exists |-> FALSE, shape |-> "object", data |-> DefaultState]

\* load_state that takes a file it cannot read for no file.
load_state_ResetsMalformed(file) ==
    IF file.exists /\ file.shape = "object"
    THEN [state |-> file.data, fresh |-> FALSE, error |-> "None"]
    ELSE [state |-> DefaultState, fresh |-> TRUE, error |-> "None"]

\* load_state: the state, the fresh flag, and the exception it raises instead
\* of returning ("None" when it returns).
load_state(file) ==
    IF file.exists
    THEN [state |-> file.data, fresh |-> FALSE,
          error |-> IF file.shape = "object" THEN "None" ELSE "RuntimeError"]
    ELSE [state |-> DefaultState, fresh |-> TRUE, error |-> "None"]

\* save_state, when the write and the rename succeed.
save_state(file, state) == [exists |-> TRUE, shape |-> "object", data |-> state]

current_retry_count(state, head_sha) ==
    IF head_sha \in DOMAIN state.retries_by_sha
    THEN state.retries_by_sha[head_sha]
    ELSE 0

set_retry_count_DropOthers(state, head_sha, count) ==
    [state EXCEPT !.retries_by_sha = [s \in {head_sha} |-> count]]

set_retry_count(state, head_sha, count) ==
    [state EXCEPT !.retries_by_sha =
        [s \in (DOMAIN state.retries_by_sha) \cup {head_sha} |->
            IF s = head_sha THEN count ELSE state.retries_by_sha[s]]]

(***************************************************************************)
(* One snapshot cycle and the rerun operation, as functions of what the    *)
(* gateway answers (gw), the state file and --max-flaky-retries.           *)
(***************************************************************************)
\* collect_snapshot that treats what is on the PR at the first run as seen.
collect_snapshot_FreshSuppresses(gw, file, max_flaky_retries) ==
    LET pr == resolve_pr(gw.pr)
        loaded == load_state(file)
        checks_summary == summarize_checks(gw.checks)
        failed_runs == failed_runs_from_workflow_runs(gw.runs, pr.head_sha)
        fetched == fetch_new_review_items(gw.items, loaded.state, gw.login)
        new_items == IF loaded.fresh THEN <<>> ELSE fetched.new_items
        retries_used == current_retry_count(fetched.state, pr.head_sha)
        actions == recommend_actions(pr, checks_summary, failed_runs,
                                     new_items, retries_used, max_flaky_retries)
        state == [fetched.state EXCEPT !.last_seen_head_sha = pr.head_sha]
    IN  [snapshot |-> [pr |-> pr,
                       checks |-> checks_summary,
                       failed_runs |-> failed_runs,
                       new_review_items |-> new_items,
                       actions |-> actions,
                       retry_state |-> [current_sha_retries_used |-> retries_used,
                                        max_flaky_retries |-> max_flaky_retries]],
         file |-> save_state(file, state)]

\* collect_snapshot that counts a retry whenever it recommends one.
collect_snapshot_CountsRecommendation(gw, file, max_flaky_retries) ==
    LET pr == resolve_pr(gw.pr)
        loaded == load_state(file)
        checks_summary == summarize_checks(gw.checks)
        failed_runs == failed_runs_from_workflow_runs(gw.runs, pr.head_sha)
        fetched == fetch_new_review_items(gw.items, loaded.state, gw.login)
        retries_used == current_retry_count(fetched.state, pr.head_sha)
        actions == recommend_actions(pr, checks_summary, failed_runs,
                                     fetched.new_items, retries_used, max_flaky_retries)
        counted == IF "retry_failed_checks" \in Range(actions)
                   THEN set_retry_count(fetched.state, pr.head_sha, retries_used + 1)
                   ELSE fetched.state
        state == [counted EXCEPT !.last_seen_head_sha = pr.head_sha]
    IN  [snapshot |-> [pr |-> pr,
                       checks |-> checks_summary,
                       failed_runs |-> failed_runs,
                       new_review_items |-> fetched.new_items,
                       actions |-> actions,
                       retry_state |-> [current_sha_retries_used |-> retries_used,
                                        max_flaky_retries |-> max_flaky_retries]],
         file |-> save_state(file, state)]

\* collect_snapshot: the snapshot it returns and the state file it leaves.
collect_snapshot(gw, file, max_flaky_retries) ==
    LET pr == resolve_pr(gw.pr)
        loaded == load_state(file)
        checks_summary == summarize_checks(gw.checks)
        failed_runs == failed_runs_from_workflow_runs(gw.runs, pr.head_sha)
        fetched == fetch_new_review_items(gw.items, loaded.state, gw.login)
        retries_used == current_retry_count(fetched.state, pr.head_sha)
        actions == recommend_actions(pr, checks_summary, failed_runs,
                                     fetched.new_items, retries_used, max_flaky_retries)
        state == [fetched.state EXCEPT !.last_seen_head_sha = pr.head_sha]
    IN  [snapshot |-> [pr |-> pr,
                       checks |-> checks_summary,
                       failed_runs |-> failed_runs,
                       new_review_items |-> fetched.new_items,
                       actions |-> actions,
                       retry_state |-> [current_sha_retries_used |-> retries_used,
                                        max_flaky_retries |-> max_flaky_retries]],
         file |-> save_state(file, state)]

\* The refusals of retry_failed_now, in the order the code tests them;
\* "None" when none applies.
refusal_reason_BudgetOffByOne(snapshot) ==
    IF snapshot.pr.closed \/ snapshot.pr.merged THEN "pr_closed"
    ELSE IF snapshot.checks.failed_count <= 0 THEN "no_failed_pr_checks"
    ELSE IF snapshot.failed_runs = <<>> THEN "no_failed_runs"
    ELSE IF ~snapshot.checks.all_terminal THEN "checks_still_pending"
    ELSE IF snapshot.retry_state.current_sha_retries_used
              > snapshot.retry_state.max_flaky_retries THEN "retry_budget_exhausted"
    ELSE "None"

refusal_reason_PendingNotTested(snapshot) ==
    IF snapshot.pr.closed \/ snapshot.pr.merged THEN "pr_closed"
    ELSE IF snapshot.checks.failed_count <= 0 THEN "no_failed_pr_checks"
    ELSE IF snapshot.failed_runs = <<>> THEN "no_failed_runs"
    ELSE IF snapshot.retry_state.current_sha_retries_used
              >= snapshot.retry_state.max_flaky_retries THEN "retry_budget_exhausted"
    ELSE "None"

refusal_reason(snapshot) ==
    IF snapshot.pr.closed \/ snapshot.pr.merged THEN "pr_closed"
    ELSE IF snapshot.checks.failed_count <= 0 THEN "no_failed_pr_checks"
    ELSE IF snapshot.failed_runs = <<>> THEN "no_failed_runs"
    ELSE IF ~snapshot.checks.all_terminal THEN "checks_still_pending"
    ELSE IF snapshot.retry_state.current_sha_retries_used
              >= snapshot.retry_state.max_flaky_retries THEN "retry_budget_exhausted"
    ELSE "None"

\* The loop over failed_runs: the run ids a rerun is requested for, in order
\* (every `gh run rerun` succeeding).
rerun_requests(failed_runs) ==
    LET HasId(run) == run.run_id # NoneId
        with_id == SelectSeq(failed_runs, HasId)
    IN  [i \in DOMAIN with_id |-> with_id[i].run_id]

\* The bookkeeping after the reruns: reload, count one retry, save.
record_retry_PerRun(file, head_sha, rerun_run_ids) ==
    LET state == load_state(file).state
        new_count == current_retry_count(state, head_sha) + Len(rerun_run_ids)
    IN  save_state(file, set_retry_count(state, head_sha, new_count))

record_retry(file, head_sha, rerun_run_ids) ==
    LET state == load_state(file).state
        new_count == current_retry_count(state, head_sha) + 1
    IN  save_state(file, set_retry_count(state, head_sha, new_count))

\* retry_failed_now: its result, the state file it leaves and the rerun
\* requests it sends to the gateway.
retry_failed_now(gw, file, max_flaky_retries) ==
    LET c == collect_snapshot(gw, file, max_flaky_retries)
        refused == refusal_reason(c.snapshot)
        ids == rerun_requests(c.snapshot.failed_runs)
        Result(attempted, run_ids, reason) ==
            [snapshot |-> c.snapshot,
             rerun_attempted |-> attempted,
             rerun_count |-> IF attempted THEN Len(run_ids) ELSE 0,
             rerun_run_ids |-> run_ids,
             reason |-> reason]
    IN  IF refused # "None"
        THEN [result |-> Result(FALSE, <<>>, refused), file |-> c.file, requests |-> <<>>]
        ELSE IF ids # <<>>
        THEN [result |-> Result(TRUE, ids, "rerun_triggered"),
              file |-> record_retry(c.file, c.snapshot.pr.head_sha, ids),
              requests |-> ids]
        ELSE [result |-> Result(FALSE, ids, "failed_runs_missing_ids"),
              file |-> c.file, requests |-> <<>>]

(***************************************************************************)
(* The system: the gateway (GitHub as `gh` reports it), the state file, and *)
(* one watcher instance invoked over and over.                             *)
(***************************************************************************)
VARIABLES
    gw,                 \* what the gateway answers now: pr, checks, runs, items, login
    max_flaky_retries,  \* args.max_flaky_retries of the instance
    state_file,         \* the state file on disk
    out,                \* what the last invocation printed (cleared when the gateway moves on)
    gh_reruns,          \* the run ids the last invocation asked the gateway to rerun
    surfaced,           \* history: how often each (kind, id) was in new_review_items
    fin,                \* inputs of a pure function under test
    fout,               \* its results
    mode,               \* the running process: "once", "watch" or "retry"
    pc,                 \* where it stands: "none", "exited", "crashed", or a step
    mem,                \* its memory: the snapshot, the state to save, the rerun loop
    tmp_file,           \* the temporary sibling of the state file
    events,             \* what it printed in this cycle, in order
    exit_code,          \* the exit code of the process that ended last
    poll_base,          \* args.poll_seconds
    poll_seconds,       \* run_watch: poll_seconds
    last_change_key,    \* run_watch: last_change_key
    slept,              \* history: the intervals of the last time.sleep and of the one
                        \* before it (0 where there was none)
    argv,               \* the command line of the process: the options argparse reads
    rerun_calls         \* history: per head SHA, the retry_failed_now calls that had
                        \* at least one `gh run rerun` accepted (counts stop at MaxBudget + 1)

\* The variables of a running process.
wvars == <<mode, pc, mem, tmp_file, events, exit_code, poll_base, poll_seconds,
           last_change_key, slept>>

vars == <<gw, max_flaky_retries, state_file, out, gh_reruns, surfaced, fin, fout, mode, pc,
          mem, tmp_file, events, exit_code, poll_base, poll_seconds, last_change_key, slept,
          argv, rerun_calls>>

SHAs == {"a", "b"}

OtherSha(sha) == IF sha = "a" THEN "b" ELSE "a"

ItemIds == {1, 2}

\* (login, author_association) of the authors who post review items.
ItemAuthors == {<<"alice", "OWNER">>, <<"mallory", "NONE">>}

\* created_at of the item with this id: the item with the larger id is older,
\* so that the chronological order is not the order of the ids.
CreatedAt(id) == 3 - id

RawItems ==
    {[id |-> i, user |-> a[1], author_association |-> a[2], created_at |-> CreatedAt(i)] :
        i \in ItemIds, a \in ItemAuthors}

CheckEntries ==
    {[bucket |-> "pass", state |-> "SUCCESS"],
     [bucket |-> "fail", state |-> "FAILURE"],
     [bucket |-> "pending", state |-> "IN_PROGRESS"]}

\* The workflow runs the gateway may list: failed runs of commit "a" with and
\* without an id, a failed run of commit "b", and a run that succeeded.
WorkflowRuns ==
    {[id |-> i, head_sha |-> "a", conclusion |-> "failure"] : i \in {1, 2, NoneId}}
    \cup {[id |-> 1, head_sha |-> "b", conclusion |-> "timed_out"],
          [id |-> 2, head_sha |-> "a", conclusion |-> "success"]}

\* The lifecycle of a PR as `gh pr view` reports it.
PrData(state, sha) ==
    [state |-> state,
     mergedAt |-> (state = "MERGED"),
     closedAt |-> (state \in {"MERGED", "CLOSED"}),
     headRefOid |-> sha,
     mergeable |-> "MERGEABLE",
     mergeStateStatus |-> "CLEAN",
     reviewDecision |-> ""]

NoSnapshot ==
    [pr |-> resolve_pr(PrData("OPEN", "a")),
     checks |-> summarize_checks(<<>>),
     failed_runs |-> <<>>,
     new_review_items |-> <<>>,
     actions |-> <<>>,
     retry_state |-> [current_sha_retries_used |-> 0, max_flaky_retries |-> 0]]

\* next_poll_seconds is the field of that name of a snapshot event of the
\* watch loop, 0 in every other output.
NoOutput ==
    [kind |-> "none", snapshot |-> NoSnapshot, rerun_attempted |-> FALSE,
     rerun_count |-> 0, rerun_run_ids |-> <<>>, reason |-> "None",
     next_poll_seconds |-> 0]

NoPureInput ==
    [pr |-> resolve_pr(PrData("OPEN", "a")), checks |-> summarize_checks(<<>>),
     failed_runs |-> <<>>, new_review_items |-> <<>>, retries_used |-> 0, max_retries |-> 0]

NoPureOutput == [done |-> FALSE, actions |-> <<>>, ready |-> FALSE, refusal |-> "None"]

ItemKeys == Kinds \X ItemIds

\* exit_code while no process has ended yet.
ExitNone == -1

\* last_change_key = None.
NoKey == <<>>

NoTmp == [exists |-> FALSE, shape |-> "not_json", data |-> DefaultState]

NoMem ==
    [snapshot |-> NoSnapshot, state |-> DefaultState, after |-> "none",
     todo |-> <<>>, rerun_run_ids |-> <<>>]

\* The command line without options: the argparse defaults.
NoArgs ==
    [poll_seconds |-> 30, max_flaky_retries |-> 3,
     once |-> FALSE, watch |-> FALSE, retry_failed_now |-> FALSE]

\* The history after a call had its reruns accepted for head_sha, or not.
CountCall(head_sha, requests) ==
    IF requests = <<>> THEN rerun_calls
    ELSE [rerun_calls EXCEPT ![head_sha] = Min(rerun_calls[head_sha] + 1, MaxBudget + 1)]

\* No process has been started.
NoProcess ==
    /\ argv = NoArgs
    /\ rerun_calls = [sha \in SHAs |-> 0]
    /\ mode = "once"
    /\ pc = "none"
    /\ mem = NoMem
    /\ tmp_file = NoTmp
    /\ events = <<>>
    /\ exit_code = ExitNone
    /\ poll_seconds = poll_base
    /\ last_change_key = NoKey
    /\ slept = <<0, 0>>

\* How often key occurs in a list of new review items.
Occurrences(items, key) ==
    Cardinality({i \in DOMAIN items : items[i].kind = key[1] /\ items[i].id = key[2]})

\* The history after an invocation printed new_items (counts stop at 3).
Surface(new_items) ==
    [key \in ItemKeys |->
        IF surfaced[key] + Occurrences(new_items, key) > 3 THEN 3
        ELSE surfaced[key] + Occurrences(new_items, key)]

GatewayBase ==
    [pr |-> PrData("OPEN", "a"),
     checks |-> <<>>,
     runs |-> <<>>,
     items |-> [k \in Kinds |-> <<>>],
     login |-> "me"]

InitCommon ==
    /\ state_file = NoFile
    /\ out = NoOutput
    /\ gh_reruns = <<>>
    /\ surfaced = [key \in ItemKeys |-> 0]
    /\ fin = NoPureInput
    /\ fout = NoPureOutput
    /\ poll_base = 30
    /\ NoProcess

\* main() without --watch and without --retry-failed-now: one snapshot cycle.
CollectSnapshot ==
    \E c \in {collect_snapshot(gw, state_file, max_flaky_retries)} :
        /\ state_file' = c.file
        /\ out' = [NoOutput EXCEPT !.kind = "snapshot", !.snapshot = c.snapshot]
        /\ gh_reruns' = <<>>
        /\ surfaced' = Surface(c.snapshot.new_review_items)
        /\ UNCHANGED <<argv, rerun_calls, gw, max_flaky_retries, fin, fout>>
        /\ UNCHANGED wvars

\* main() with --retry-failed-now.
RetryFailedNow ==
    \E r \in {retry_failed_now(gw, state_file, max_flaky_retries)} :
        /\ state_file' = r.file
        /\ out' = [kind |-> "retry",
                   snapshot |-> r.result.snapshot,
                   rerun_attempted |-> r.result.rerun_attempted,
                   rerun_count |-> r.result.rerun_count,
                   rerun_run_ids |-> r.result.rerun_run_ids,
                   reason |-> r.result.reason,
                   next_poll_seconds |-> 0]
        /\ gh_reruns' = r.requests
        /\ rerun_calls' = CountCall(r.result.snapshot.pr.head_sha, r.requests)
        /\ surfaced' = Surface(r.result.snapshot.new_review_items)
        /\ UNCHANGED <<argv, gw, max_flaky_retries, fin, fout>>
        /\ UNCHANGED wvars

\* The gateway moves on: what the last invocation printed is history.
GatewayBecomes(new_gw) ==
    /\ new_gw # gw
    /\ gw' = new_gw
    /\ out' = NoOutput
    /\ gh_reruns' = <<>>
    /\ UNCHANGED <<argv, rerun_calls, max_flaky_retries, state_file, surfaced, fin, fout>>
    /\ UNCHANGED wvars

TotalItems(items) == Len(items["issue_comment"]) + Len(items["review_comment"]) + Len(items["review"])

\* Somebody posts a comment or a review (a paginated fetch may also list one
\* item twice).
PostItem ==
    /\ TotalItems(gw.items) < MaxItems
    /\ \E k \in Kinds, item \in RawItems :
          GatewayBecomes([gw EXCEPT !.items[k] = Append(@, item)])

\* Somebody deletes a comment or dismisses a review.
DeleteItem ==
    \E k \in Kinds :
        \E i \in DOMAIN gw.items[k] :
            GatewayBecomes([gw EXCEPT !.items[k] =
                SubSeq(@, 1, i - 1) \o SubSeq(@, i + 1, Len(@))])

\* The PR is closed, merged or reopened.
SetPrState ==
    \E state \in {"OPEN", "CLOSED", "MERGED"} :
        GatewayBecomes([gw EXCEPT !.pr = PrData(state, gw.pr.headRefOid)])

\* A commit is pushed (or force-pushed back) to the PR branch.
PushCommit ==
    GatewayBecomes([gw EXCEPT !.pr = PrData(gw.pr.state, OtherSha(gw.pr.headRefOid))])

\* The lists of at most n elements of S, one per multiset (summarize_checks
\* counts and failed_runs_from_workflow_runs sorts: the order the gateway
\* lists them in is immaterial).
RECURSIVE ListsUpTo(_, _)
ListsUpTo(S, n) ==
    IF n = 0 \/ S = {} THEN {<<>>}
    ELSE LET x == CHOOSE y \in S : TRUE
         IN  ListsUpTo(S \ {x}, n)
             \cup {<<x>> \o l : l \in ListsUpTo(S, n - 1)}

CheckLists == ListsUpTo(CheckEntries, MaxChecks)

RunLists == ListsUpTo(WorkflowRuns, MaxRuns)

Count(l, x) == Cardinality({i \in DOMAIN l : l[i] = x})

\* l2 is l1 with one element more or one element less.
OneEdit(l1, l2) ==
    /\ Len(l2) = Len(l1) + 1 \/ Len(l1) = Len(l2) + 1
    /\ Cardinality({x \in Range(l1) \cup Range(l2) : Count(l1, x) # Count(l2, x)}) = 1

CheckEdits == [l \in CheckLists |-> {l2 \in CheckLists : OneEdit(l, l2)}]

RunEdits == [l \in RunLists |-> {l2 \in RunLists : OneEdit(l, l2)}]

\* A check starts, finishes or is dropped.
ReportChecks ==
    \E checks \in CheckEdits[gw.checks] :
        GatewayBecomes([gw EXCEPT !.checks = checks])

\* A workflow run is listed or no longer listed.
ReportRuns ==
    \E runs \in RunEdits[gw.runs] :
        GatewayBecomes([gw EXCEPT !.runs = runs])

(***************************************************************************)
(* One process step by step: main, collect_snapshot, save_state, run_watch *)
(* and retry_failed_now, with the places where a call may fail or the      *)
(* process may be killed.                                                  *)
(***************************************************************************)
GREEN_STATE_MAX_POLL_SECONDS == 3600

Running == pc \notin {"none", "exited", "crashed"}

is_ci_green(snapshot) ==
    /\ snapshot.checks.all_terminal
    /\ snapshot.checks.failed_count = 0
    /\ snapshot.checks.pending_count = 0

snapshot_change_key(snapshot) ==
    <<snapshot.pr.head_sha,
      snapshot.pr.state,
      snapshot.pr.mergeable,
      snapshot.pr.merge_state_status,
      snapshot.pr.review_decision,
      snapshot.checks.passed_count,
      snapshot.checks.failed_count,
      snapshot.checks.pending_count,
      [i \in DOMAIN snapshot.new_review_items |->
          <<snapshot.new_review_items[i].kind, snapshot.new_review_items[i].id>>],
      snapshot.actions>>

\* run_watch: whether the action list ends the loop.
is_stop_NoExhausted(actions) ==
    \/ "stop_pr_closed" \in Range(actions)
    \/ "stop_ready_to_merge" \in Range(actions)

is_stop_NoClosed(actions) ==
    \/ "stop_exhausted_retries" \in Range(actions)
    \/ "stop_ready_to_merge" \in Range(actions)

is_stop(actions) ==
    \/ "stop_pr_closed" \in Range(actions)
    \/ "stop_exhausted_retries" \in Range(actions)
    \/ "stop_ready_to_merge" \in Range(actions)

\* run_watch: poll_seconds for the sleep that follows this snapshot.
next_poll_seconds_NoCeiling(snapshot, seconds, last_key, base) ==
    IF ~is_ci_green(snapshot) THEN base
    ELSE IF snapshot_change_key(snapshot) # last_key \/ last_key = NoKey THEN base
    ELSE seconds * 2

next_poll_seconds_GreenAlwaysDoubles(snapshot, seconds, last_key, base) ==
    IF ~is_ci_green(snapshot) THEN base
    ELSE Min(seconds * 2, GREEN_STATE_MAX_POLL_SECONDS)

next_poll_seconds(snapshot, seconds, last_key, base) ==
    IF ~is_ci_green(snapshot) THEN base
    ELSE IF snapshot_change_key(snapshot) # last_key \/ last_key = NoKey THEN base
    ELSE Min(seconds * 2, GREEN_STATE_MAX_POLL_SECONDS)

\* Where an exception raised in this mode ends: nothing between the raise and
\* main catches it, main returns 1 for GhCommandError, RuntimeError and
\* ValueError and 130 for KeyboardInterrupt, and any other exception leaves
\* main uncaught, which ends the interpreter with exit code 1.
propagate_WatchKeepsPolling(run_mode, exc) ==
    IF run_mode = "watch" /\ exc # "KeyboardInterrupt"
    THEN [pc |-> "sleep", exit_code |-> ExitNone]
    ELSE [pc |-> "exited", exit_code |-> IF exc = "KeyboardInterrupt" THEN 130 ELSE 1]

propagate(run_mode, exc) ==
    [pc |-> "exited",
     exit_code |-> IF exc \in {"GhCommandError", "RuntimeError", "ValueError"} THEN 1
                   ELSE IF exc = "KeyboardInterrupt" THEN 130
                   ELSE 1]

\* save_state one step at a time: the state file and the temporary file after
\* mkstemp, after the write, after os.replace, and after the except clause.
save_step_InPlace(step, file, tmp, state) ==
    CASE step = "mkstemp" ->
            [file |-> [exists |-> TRUE, shape |-> "not_json", data |-> DefaultState],
             tmp |-> tmp]
      [] step = "write" -> [file |-> save_state(file, state), tmp |-> tmp]
      [] step = "replace" -> [file |-> file, tmp |-> tmp]
      [] OTHER -> [file |-> file, tmp |-> NoTmp]

\* save_state that renames the temporary file before it writes to it.
save_step_ReplaceBeforeWrite(step, file, tmp, state) ==
    CASE step = "mkstemp" ->
            [file |-> file,
             tmp |-> [exists |-> TRUE, shape |-> "not_json", data |-> DefaultState]]
      [] step = "write" -> [file |-> tmp, tmp |-> NoTmp]
      [] step = "replace" -> [file |-> save_state(file, state), tmp |-> tmp]
      [] OTHER -> [file |-> file, tmp |-> NoTmp]

save_step(step, file, tmp, state) ==
    CASE step = "mkstemp" ->
            [file |-> file,
             tmp |-> [exists |-> TRUE, shape |-> "not_json", data |-> DefaultState]]
      [] step = "write" -> [file |-> file, tmp |-> save_state(tmp, state)]
      [] step = "replace" -> [file |-> tmp, tmp |-> NoTmp]
      [] OTHER -> [file |-> file, tmp |-> NoTmp]

\* The step that follows the in-memory updates of collect_snapshot:
\* save_state, before the snapshot is returned to whoever prints it.
after_fetch_SkipsSave(run_mode) ==
    IF run_mode = "watch" THEN "watch_emit"
    ELSE IF run_mode = "retry" THEN "rerun"
    ELSE "emit"

after_fetch(run_mode) == "mkstemp"

\* The step that follows a completed save_state.
after_save(run_mode, after) ==
    IF after = "recorded" THEN "result"
    ELSE IF run_mode = "watch" THEN "watch_emit"
    ELSE IF run_mode = "retry" THEN "rerun"
    ELSE "emit"

\* main starts a process in this mode.
Start(run_mode) ==
    /\ ~Running
    /\ mode' = run_mode
    /\ pc' = "fetch"
    /\ mem' = NoMem
    /\ tmp_file' = NoTmp
    /\ events' = <<>>
    /\ exit_code' = ExitNone
    /\ poll_seconds' = poll_base
    /\ last_change_key' = NoKey
    /\ slept' = <<0, 0>>
    /\ out' = NoOutput
    /\ gh_reruns' = <<>>
    /\ UNCHANGED <<argv, rerun_calls, gw, max_flaky_retries, state_file, surfaced, fin, fout, poll_base>>

\* An exception leaves the running operation.
Raise(exc) ==
    \E r \in {propagate(mode, exc)} :
        /\ pc' = r.pc
        /\ exit_code' = r.exit_code
        /\ mem' = NoMem

\* collect_snapshot up to save_state: the gateway is read, the state is loaded
\* and updated in memory, the actions are computed.
CollectFetch ==
    /\ pc = "fetch"
    /\ load_state(state_file).error = "None"
    /\ \E c \in {collect_snapshot(gw, state_file, max_flaky_retries)} :
          mem' = [NoMem EXCEPT !.snapshot = c.snapshot,
                               !.state = c.file.data,
                               !.after = "collected",
                               !.todo = c.snapshot.failed_runs]
    /\ pc' = after_fetch(mode)
    /\ UNCHANGED <<argv, rerun_calls, gw, max_flaky_retries, state_file, out, gh_reruns, surfaced, fin, fout,
                   mode, tmp_file, events, exit_code, poll_base, poll_seconds,
                   last_change_key, slept>>

\* load_state raises on a state file that is not a JSON object.
LoadFails ==
    /\ pc = "fetch"
    /\ load_state(state_file).error # "None"
    /\ Raise(load_state(state_file).error)
    /\ UNCHANGED <<argv, rerun_calls, gw, max_flaky_retries, state_file, out, gh_reruns, surfaced, fin, fout,
                   mode, tmp_file, events, poll_base, poll_seconds, last_change_key, slept>>

\* A gh call of collect_snapshot fails or answers with an unexpected payload.
GatewayFails ==
    /\ pc = "fetch"
    /\ Raise("GhCommandError")
    /\ UNCHANGED <<argv, rerun_calls, gw, max_flaky_retries, state_file, out, gh_reruns, surfaced, fin, fout,
                   mode, tmp_file, events, poll_base, poll_seconds, last_change_key, slept>>

\* One step of save_state succeeds.
SaveStep ==
    /\ pc \in {"mkstemp", "write", "replace"}
    /\ \E r \in {save_step(pc, state_file, tmp_file, mem.state)} :
          /\ state_file' = r.file
          /\ tmp_file' = r.tmp
    /\ pc' = CASE pc = "mkstemp" -> "write"
               [] pc = "write" -> "replace"
               [] OTHER -> after_save(mode, mem.after)
    /\ UNCHANGED <<argv, rerun_calls, gw, max_flaky_retries, out, gh_reruns, surfaced, fin, fout, mode, mem,
                   events, exit_code, poll_base, poll_seconds, last_change_key, slept>>

\* mkstemp, the write or os.replace raises OSError; inside the try the except
\* clause unlinks the temporary file and re-raises.
SaveFails ==
    /\ pc \in {"mkstemp", "write", "replace"}
    /\ \E r \in {save_step("except", state_file, tmp_file, mem.state)} :
          /\ state_file' = r.file
          /\ tmp_file' = r.tmp
    /\ Raise("OSError")
    /\ UNCHANGED <<argv, rerun_calls, gw, max_flaky_retries, out, gh_reruns, surfaced, fin, fout, mode,
                   events, poll_base, poll_seconds, last_change_key, slept>>

\* print_json(snapshot) of the one-shot mode, and return 0.
EmitOnce ==
    /\ pc = "emit"
    /\ out' = [NoOutput EXCEPT !.kind = "snapshot", !.snapshot = mem.snapshot]
    /\ events' = Append(events, "snapshot")
    /\ surfaced' = Surface(mem.snapshot.new_review_items)
    /\ pc' = "exited"
    /\ exit_code' = 0
    /\ mem' = NoMem
    /\ UNCHANGED <<argv, rerun_calls, gw, max_flaky_retries, state_file, gh_reruns, fin, fout, mode, tmp_file,
                   poll_base, poll_seconds, last_change_key, slept>>

\* run_watch: print_event("snapshot", ...).
WatchEmit ==
    /\ pc = "watch_emit"
    /\ out' = [NoOutput EXCEPT !.kind = "snapshot", !.snapshot = mem.snapshot,
                               !.next_poll_seconds = poll_seconds]
    /\ events' = Append(events, "snapshot")
    /\ surfaced' = Surface(mem.snapshot.new_review_items)
    /\ pc' = "decide"
    /\ UNCHANGED <<argv, rerun_calls, gw, max_flaky_retries, state_file, gh_reruns, fin, fout, mode, mem,
                   tmp_file, exit_code, poll_base, poll_seconds, last_change_key, slept>>

\* run_watch: a stop action ends the loop with a stop event and code 0.
WatchStop ==
    /\ pc = "decide"
    /\ is_stop(mem.snapshot.actions)
    /\ events' = Append(events, "stop")
    /\ pc' = "exited"
    /\ exit_code' = 0
    /\ mem' = NoMem
    /\ UNCHANGED <<argv, rerun_calls, gw, max_flaky_retries, state_file, out, gh_reruns, surfaced, fin, fout,
                   mode, tmp_file, poll_base, poll_seconds, last_change_key, slept>>

\* run_watch: otherwise the interval is set and the loop sleeps.
WatchSleep ==
    /\ pc = "decide"
    /\ ~is_stop(mem.snapshot.actions)
    /\ poll_seconds' = next_poll_seconds(mem.snapshot, poll_seconds, last_change_key, poll_base)
    /\ last_change_key' = snapshot_change_key(mem.snapshot)
    /\ slept' = <<poll_seconds', slept[1]>>
    /\ pc' = "sleep"
    /\ mem' = NoMem
    /\ UNCHANGED <<argv, rerun_calls, gw, max_flaky_retries, state_file, out, gh_reruns, surfaced, fin, fout,
                   mode, tmp_file, events, exit_code, poll_base>>

\* time.sleep returns: the next cycle begins.
WatchWake ==
    /\ pc = "sleep"
    /\ pc' = "fetch"
    /\ events' = <<>>
    /\ UNCHANGED <<argv, rerun_calls, gw, max_flaky_retries, state_file, out, gh_reruns, surfaced, fin, fout,
                   mode, mem, tmp_file, exit_code, poll_base, poll_seconds, last_change_key,
                   slept>>

\* The result retry_failed_now returns, as main prints it.
RetryOutput(snapshot, run_ids, reason) ==
    [kind |-> "retry",
     snapshot |-> snapshot,
     rerun_attempted |-> (reason = "rerun_triggered"),
     rerun_count |-> IF reason = "rerun_triggered" THEN Len(run_ids) ELSE 0,
     rerun_run_ids |-> run_ids,
     reason |-> reason,
     next_poll_seconds |-> 0]

\* print_json(retry_failed_now(args)), and return 0.
PrintResult(reason) ==
    /\ out' = RetryOutput(mem.snapshot, mem.rerun_run_ids, reason)
    /\ events' = Append(events, "result")
    /\ surfaced' = Surface(mem.snapshot.new_review_items)
    /\ pc' = "exited"
    /\ exit_code' = 0
    /\ mem' = NoMem

\* retry_failed_now refuses after the snapshot was collected.
RetryRefuse ==
    /\ pc = "rerun"
    /\ refusal_reason(mem.snapshot) # "None"
    /\ PrintResult(refusal_reason(mem.snapshot))
    /\ UNCHANGED <<argv, rerun_calls, gw, max_flaky_retries, state_file, gh_reruns, fin, fout, mode, tmp_file,
                   poll_base, poll_seconds, last_change_key, slept>>

\* The rerun loop takes the next failed run: a run without id is skipped, for
\* the others `gh run rerun` is called and succeeds.
RerunNext ==
    /\ pc = "rerun"
    /\ refusal_reason(mem.snapshot) = "None"
    /\ mem.todo # <<>>
    /\ \E ids \in {rerun_requests(<<Head(mem.todo)>>)} :
          /\ gh_reruns' = gh_reruns \o ids
          /\ rerun_calls' = IF mem.rerun_run_ids = <<>>
                            THEN CountCall(mem.snapshot.pr.head_sha, ids)
                            ELSE rerun_calls
          /\ mem' = [mem EXCEPT !.todo = Tail(mem.todo),
                                !.rerun_run_ids = mem.rerun_run_ids \o ids]
    /\ UNCHANGED <<argv, gw, max_flaky_retries, state_file, out, surfaced, fin, fout, mode, pc,
                   tmp_file, events, exit_code, poll_base, poll_seconds, last_change_key,
                   slept>>

\* `gh run rerun` fails for the next failed run.
RerunFails ==
    /\ pc = "rerun"
    /\ refusal_reason(mem.snapshot) = "None"
    /\ mem.todo # <<>>
    /\ rerun_requests(<<Head(mem.todo)>>) # <<>>
    /\ Raise("GhCommandError")
    /\ UNCHANGED <<argv, rerun_calls, gw, max_flaky_retries, state_file, out, gh_reruns, surfaced, fin, fout,
                   mode, tmp_file, events, poll_base, poll_seconds, last_change_key, slept>>

\* After the loop, with reruns requested: the state is loaded again, one retry
\* is counted and save_state begins.
RerunRecord ==
    /\ pc = "rerun"
    /\ refusal_reason(mem.snapshot) = "None"
    /\ mem.todo = <<>>
    /\ mem.rerun_run_ids # <<>>
    /\ load_state(state_file).error = "None"
    /\ mem' = [mem EXCEPT
                 !.state = record_retry(state_file, mem.snapshot.pr.head_sha,
                                        mem.rerun_run_ids).data,
                 !.after = "recorded"]
    /\ pc' = "mkstemp"
    /\ UNCHANGED <<argv, rerun_calls, gw, max_flaky_retries, state_file, out, gh_reruns, surfaced, fin, fout,
                   mode, tmp_file, events, exit_code, poll_base, poll_seconds,
                   last_change_key, slept>>

\* After the loop, with no run that has an id.
RerunNothing ==
    /\ pc = "rerun"
    /\ refusal_reason(mem.snapshot) = "None"
    /\ mem.todo = <<>>
    /\ mem.rerun_run_ids = <<>>
    /\ PrintResult("failed_runs_missing_ids")
    /\ UNCHANGED <<argv, rerun_calls, gw, max_flaky_retries, state_file, gh_reruns, fin, fout, mode, tmp_file,
                   poll_base, poll_seconds, last_change_key, slept>>

\* The retry is recorded: the result is printed.
RetryResult ==
    /\ pc = "result"
    /\ PrintResult("rerun_triggered")
    /\ UNCHANGED <<argv, rerun_calls, gw, max_flaky_retries, state_file, gh_reruns, fin, fout, mode, tmp_file,
                   poll_base, poll_seconds, last_change_key, slept>>

\* Ctrl-C: KeyboardInterrupt is raised wherever the process stands (the except
\* clause of save_state, which catches Exception, lets it pass).
Interrupt ==
    /\ Running
    /\ Raise("KeyboardInterrupt")
    /\ UNCHANGED <<argv, rerun_calls, gw, max_flaky_retries, state_file, out, gh_reruns, surfaced, fin, fout,
                   mode, tmp_file, events, poll_base, poll_seconds, last_change_key, slept>>

\* The process is killed (or the machine stops) wherever it stands: its memory
\* is gone, the files stay as they are.
Crash ==
    /\ Running
    /\ pc' = "crashed"
    /\ mem' = NoMem
    /\ UNCHANGED <<argv, rerun_calls, gw, max_flaky_retries, state_file, out, gh_reruns, surfaced, fin, fout,
                   mode, tmp_file, events, exit_code, poll_base, poll_seconds,
                   last_change_key, slept>>

(***************************************************************************)
(* The command line: parse_args and the dispatch of main.                  *)
(***************************************************************************)
\* parse_args: the checks after parser.parse_args(), in their order, and the
\* default of --once; parser.error prints the message and exits with status 2.
parse_args(args) ==
    IF args.poll_seconds <= 0 THEN [error |-> "--poll-seconds must be > 0", args |-> args]
    ELSE IF args.max_flaky_retries < 0
    THEN [error |-> "--max-flaky-retries must be >= 0", args |-> args]
    ELSE IF args.watch /\ args.retry_failed_now
    THEN [error |-> "--watch cannot be combined with --retry-failed-now", args |-> args]
    ELSE IF ~args.once /\ ~args.watch /\ ~args.retry_failed_now
    THEN [error |-> "None", args |-> [args EXCEPT !.once = TRUE]]
    ELSE [error |-> "None", args |-> args]

\* main: the mode the parsed arguments run in.
main_mode(args) ==
    IF args.retry_failed_now THEN "retry"
    ELSE IF args.watch THEN "watch"
    ELSE "once"

\* parse_args rejects the command line: the process ends with status 2 before
\* main enters its try block.
ParserError ==
    /\ pc = "none"
    /\ parse_args(argv).error # "None"
    /\ pc' = "exited"
    /\ exit_code' = 2
    /\ UNCHANGED <<argv, rerun_calls, gw, max_flaky_retries, state_file, out, gh_reruns,
                   surfaced, fin, fout, mode, mem, tmp_file, events, poll_base, poll_seconds,
                   last_change_key, slept>>

\* parse_args accepts the command line and main starts the mode it selects.
Main ==
    /\ pc = "none"
    /\ parse_args(argv).error = "None"
    /\ Start(main_mode(parse_args(argv).args))

(***************************************************************************)
(* SpecArgs: one invocation for every command line, on an open PR that is  *)
(* ready to merge.                                                         *)
(***************************************************************************)
\* The values given to --poll-seconds and --max-flaky-retries.
PollSecondsArgs == {-5, 0, 30}

MaxFlakyRetriesArgs == {-1, 0, 3}

CommandLines ==
    [poll_seconds : PollSecondsArgs, max_flaky_retries : MaxFlakyRetriesArgs,
     once : BOOLEAN, watch : BOOLEAN, retry_failed_now : BOOLEAN]

InitArgs ==
    /\ gw = GatewayBase
    /\ argv \in CommandLines
    /\ max_flaky_retries = argv.max_flaky_retries
    /\ poll_base = argv.poll_seconds
    /\ state_file = NoFile
    /\ out = NoOutput
    /\ gh_reruns = <<>>
    /\ surfaced = [key \in ItemKeys |-> 0]
    /\ fin = NoPureInput
    /\ fout = NoPureOutput
    /\ rerun_calls = [sha \in SHAs |-> 0]
    /\ mode = "once"
    /\ pc = "none"
    /\ mem = NoMem
    /\ tmp_file = NoTmp
    /\ events = <<>>
    /\ exit_code = ExitNone
    /\ poll_seconds = poll_base
    /\ last_change_key = NoKey
    /\ slept = <<0, 0>>

NextArgs ==
    \/ ParserError
    \/ Main
    \/ CollectFetch
    \/ SaveStep
    \/ EmitOnce
    \/ WatchEmit
    \/ WatchStop
    \/ RetryRefuse

SpecArgs == InitArgs /\ [][NextArgs]_vars

(***************************************************************************)
(* SpecTrust: comments and reviews by all sorts of authors are posted and  *)
(* deleted on an open PR while one instance is invoked over and over.      *)
(***************************************************************************)
\* (login, author_association) of the authors: no login at all, the caller,
\* humans with each association, automation accounts with and without the
\* keyword, and a human whose login contains the keyword.
TrustAuthors ==
    <<<<"", "OWNER">>,
      <<"me", "NONE">>,
      <<"alice", "OWNER">>,
      <<"bob", "MEMBER">>,
      <<"carol", "COLLABORATOR">>,
      <<"mallory", "NONE">>,
      <<"dave", "CONTRIBUTOR">>,
      <<"dependabot[bot]", "MEMBER">>,
      <<"Codex-Review[bot]", "NONE">>,
      <<"codex-fan", "NONE">>>>

\* One item of each author; the id of an item tells its author.
TrustItems ==
    {[id |-> i, user |-> TrustAuthors[i][1], author_association |-> TrustAuthors[i][2],
      created_at |-> CreatedAt(i)] : i \in DOMAIN TrustAuthors}

\* An author posts their item as a comment, a review comment or a review.
PostByAnyone ==
    /\ TotalItems(gw.items) < MaxItems
    /\ \E k \in Kinds, item \in TrustItems :
          /\ \A k2 \in Kinds : item \notin Range(gw.items[k2])
          /\ GatewayBecomes([gw EXCEPT !.items[k] = Append(@, item)])

InitTrust ==
    /\ gw = GatewayBase
    /\ max_flaky_retries = 1
    /\ InitCommon

NextTrust ==
    \/ PostByAnyone
    \/ CollectSnapshot
    \/ RetryFailedNow

SpecTrust == InitTrust /\ [][NextTrust]_vars

(***************************************************************************)
(* SpecChecks: summarize_checks on every short list of check entries.      *)
(***************************************************************************)
\* The buckets and states `gh pr checks --json bucket,state` reports; any state
\* may come with any bucket.
CheckBuckets == {"pass", "fail", "pending", "skipping"}

CheckStates == {"SUCCESS", "FAILURE", "QUEUED", "IN_PROGRESS", "PENDING", "WAITING", "REQUESTED"}

AnyCheckEntries == [bucket : CheckBuckets, state : CheckStates]

NoSummary == [done |-> FALSE, summary |-> summarize_checks(<<>>)]

InitChecks ==
    /\ gw = GatewayBase
    /\ max_flaky_retries = 0
    /\ state_file = NoFile
    /\ out = NoOutput
    /\ gh_reruns = <<>>
    /\ surfaced = [key \in ItemKeys |-> 0]
    /\ fin \in ListsUpTo(AnyCheckEntries, MaxChecks)
    /\ fout = NoSummary
    /\ poll_base = 30
    /\ NoProcess

Summarize ==
    /\ ~fout.done
    /\ fout' = [done |-> TRUE, summary |-> summarize_checks(fin)]
    /\ UNCHANGED <<argv, rerun_calls, gw, max_flaky_retries, state_file, out, gh_reruns,
                   surfaced, fin>>
    /\ UNCHANGED wvars

NextChecks == Summarize

SpecChecks == InitChecks /\ [][NextChecks]_vars

(***************************************************************************)
(* SpecReview: review activity comes and goes on a PR whose CI fails.      *)
(***************************************************************************)
InitReview ==
    /\ gw = [GatewayBase EXCEPT
                !.checks = <<[bucket |-> "fail", state |-> "FAILURE"]>>,
                !.runs = <<[id |-> 1, head_sha |-> "a", conclusion |-> "failure"]>>]
    /\ max_flaky_retries = 1
    /\ InitCommon

NextReview ==
    \/ PostItem
    \/ DeleteItem
    \/ CollectSnapshot
    \/ RetryFailedNow

SpecReview == InitReview /\ [][NextReview]_vars

(***************************************************************************)
(* SpecRetry: the PR, its checks and its workflow runs change under a      *)
(* watcher with a fixed retry budget.                                      *)
(***************************************************************************)
InitRetry ==
    /\ gw = GatewayBase
    /\ max_flaky_retries \in {0, MaxBudget}
    /\ InitCommon

NextRetry ==
    \/ SetPrState
    \/ PushCommit
    \/ ReportChecks
    \/ ReportRuns
    \/ CollectSnapshot
    \/ RetryFailedNow

SpecRetry == InitRetry /\ [][NextRetry]_vars

(***************************************************************************)
(* SpecPure: is_pr_ready_to_merge and recommend_actions applied to every   *)
(* input of a bounded set.                                                 *)
(***************************************************************************)
PurePRs ==
    {[head_sha |-> "a", state |-> "OPEN", merged |-> m, closed |-> c, mergeable |-> mg,
      merge_state_status |-> ms, review_decision |-> rd] :
        m \in BOOLEAN, c \in BOOLEAN,
        mg \in {"MERGEABLE", "CONFLICTING"},
        ms \in {"CLEAN"} \cup MERGE_CONFLICT_OR_BLOCKING_STATES,
        rd \in {""} \cup MERGE_BLOCKING_REVIEW_DECISIONS}

\* passed_count, which neither function reads, is the same in every input.
PureChecks ==
    {[pending_count |-> p, failed_count |-> f, passed_count |-> 3, all_terminal |-> t] :
        p \in 0..MaxPending, f \in 0..MaxFailed, t \in BOOLEAN}

PureFailedRuns ==
    {<<>>,
     <<[run_id |-> 1, conclusion |-> "failure"]>>,
     <<[run_id |-> 1, conclusion |-> "failure"], [run_id |-> 2, conclusion |-> "failure"]>>}

PureNewItems ==
    {<<>>,
     <<[kind |-> "issue_comment", id |-> 1, author |-> "alice",
        author_association |-> "OWNER", created_at |-> 1]>>}

InitPure ==
    /\ gw = GatewayBase
    /\ max_flaky_retries = 0
    /\ state_file = NoFile
    /\ out = NoOutput
    /\ gh_reruns = <<>>
    /\ surfaced = [key \in ItemKeys |-> 0]
    /\ fin \in [pr : PurePRs, checks : PureChecks, failed_runs : PureFailedRuns,
                new_review_items : PureNewItems,
                retries_used : 0..MaxRetries, max_retries : 0..MaxRetries]
    /\ fout = NoPureOutput
    /\ poll_base = 30
    /\ NoProcess

Evaluate ==
    /\ ~fout.done
    /\ fout' = [done |-> TRUE,
                actions |-> recommend_actions(fin.pr, fin.checks, fin.failed_runs,
                                              fin.new_review_items, fin.retries_used,
                                              fin.max_retries),
                ready |-> is_pr_ready_to_merge(fin.pr, fin.checks, fin.new_review_items),
                refusal |-> refusal_reason(
                    [pr |-> fin.pr,
                     checks |-> fin.checks,
                     failed_runs |-> fin.failed_runs,
                     retry_state |-> [current_sha_retries_used |-> fin.retries_used,
                                      max_flaky_retries |-> fin.max_retries]])]
    /\ UNCHANGED <<argv, rerun_calls, gw, max_flaky_retries, state_file, out, gh_reruns, surfaced, fin>>
    /\ UNCHANGED wvars

NextPure == Evaluate

SpecPure == InitPure /\ [][NextPure]_vars

(***************************************************************************)
(* SpecWatch: one `--watch` process polls a PR whose state, review         *)
(* decision, check and comments change while it sleeps; its calls may      *)
(* fail and it may be interrupted.                                         *)
(***************************************************************************)
\* The values of --poll-seconds: below and above the ceiling.
PollBases == {1000, 5000}

\* The comment somebody posts while the watcher runs.
WatchComment ==
    [id |-> 1, user |-> "alice", author_association |-> "OWNER", created_at |-> CreatedAt(1)]

\* Nothing is asked of the gateway or of the state file right now.
Quiet == pc \in {"none", "sleep"}

\* The reviewers decide, or their decision is withdrawn.
SetReviewDecision ==
    \E decision \in {"", "REVIEW_REQUIRED"} :
        GatewayBecomes([gw EXCEPT !.pr.reviewDecision = decision])

\* The only check of the PR starts, finishes or is dropped.
ReportOneCheck ==
    \E checks \in ListsUpTo(CheckEntries, 1) :
        GatewayBecomes([gw EXCEPT !.checks = checks])

PostWatchComment ==
    /\ gw.items["issue_comment"] = <<>>
    /\ GatewayBecomes([gw EXCEPT !.items["issue_comment"] = <<WatchComment>>])

\* Somebody else overwrites the state file with text that is not JSON.
CorruptStateFile ==
    /\ state_file.shape = "object"
    /\ state_file' = [exists |-> TRUE, shape |-> "not_json", data |-> DefaultState]
    /\ UNCHANGED <<argv, rerun_calls, gw, max_flaky_retries, out, gh_reruns, surfaced, fin, fout>>
    /\ UNCHANGED wvars

InitWatch ==
    /\ gw = [GatewayBase EXCEPT !.pr.reviewDecision = "REVIEW_REQUIRED"]
    /\ max_flaky_retries \in {0, MaxBudget}
    /\ state_file = NoFile
    /\ out = NoOutput
    /\ gh_reruns = <<>>
    /\ surfaced = [key \in ItemKeys |-> 0]
    /\ fin = NoPureInput
    /\ fout = NoPureOutput
    /\ poll_base \in PollBases
    /\ NoProcess

NextWatch ==
    \/ (pc = "none" /\ Start("watch"))
    \/ CollectFetch
    \/ LoadFails
    \/ GatewayFails
    \/ SaveStep
    \/ SaveFails
    \/ WatchEmit
    \/ WatchStop
    \/ WatchSleep
    \/ WatchWake
    \/ Interrupt
    \/ (Quiet /\ SetPrState)
    \/ (Quiet /\ SetReviewDecision)
    \/ (Quiet /\ ReportOneCheck)
    \/ (Quiet /\ PostWatchComment)
    \/ (Quiet /\ CorruptStateFile)

SpecWatch == InitWatch /\ [][NextWatch]_vars

(***************************************************************************)
(* SpecWatchLive: the same process while every gateway call and every save *)
(* succeeds and nobody interrupts it or touches the state file.  The loop  *)
(* of run_watch has no blocking call but time.sleep, which returns: the    *)
(* steps of the process are weakly fair.                                   *)
(***************************************************************************)
\* A watcher with the largest retry budget and an interval above the ceiling.
InitWatchLive ==
    /\ gw = [GatewayBase EXCEPT !.pr.reviewDecision = "REVIEW_REQUIRED"]
    /\ max_flaky_retries = MaxBudget
    /\ state_file = NoFile
    /\ out = NoOutput
    /\ gh_reruns = <<>>
    /\ surfaced = [key \in ItemKeys |-> 0]
    /\ fin = NoPureInput
    /\ fout = NoPureOutput
    /\ poll_base = 5000
    /\ NoProcess

WatchProcessStep ==
    \/ (pc = "none" /\ Start("watch"))
    \/ CollectFetch
    \/ SaveStep
    \/ WatchEmit
    \/ WatchStop
    \/ WatchSleep
    \/ WatchWake

NextWatchLive ==
    \/ (pc = "none" /\ Start("watch"))
    \/ CollectFetch
    \/ SaveStep
    \/ WatchEmit
    \/ WatchStop
    \/ WatchSleep
    \/ WatchWake
    \/ (Quiet /\ SetPrState)
    \/ (Quiet /\ SetReviewDecision)
    \/ (Quiet /\ ReportOneCheck)
    \/ (Quiet /\ PostWatchComment)

SpecWatchLive == InitWatchLive /\ [][NextWatchLive]_vars /\ WF_vars(WatchProcessStep)

(***************************************************************************)
(* SpecCrash: one-shot, watch and rerun processes follow one another on    *)
(* one state file while trusted review feedback arrives; a process may     *)
(* fail, be interrupted or be killed at any step, and the state file may   *)
(* be unreadable from the start.                                           *)
(***************************************************************************)
Modes == {"once", "watch", "retry"}

\* A trusted author posts an issue comment, a review comment or a review.
PostFeedback ==
    /\ TotalItems(gw.items) < MaxItems
    /\ \E k \in Kinds, i \in ItemIds :
          /\ \A j \in DOMAIN gw.items[k] : gw.items[k][j].id # i
          /\ GatewayBecomes([gw EXCEPT !.items[k] =
                Append(@, [id |-> i, user |-> "alice", author_association |-> "OWNER",
                           created_at |-> CreatedAt(i)])])

\* The state files a process may find: none, text that is not JSON, JSON that
\* is not an object.
FoundStateFiles ==
    {NoFile,
     [exists |-> TRUE, shape |-> "not_json", data |-> DefaultState],
     [exists |-> TRUE, shape |-> "not_object", data |-> DefaultState]}

\* A PR whose only check failed, with a failed run that has an id or not.
InitCrash ==
    /\ \E id \in {1, NoneId} :
          gw = [GatewayBase EXCEPT
                  !.checks = <<[bucket |-> "fail", state |-> "FAILURE"]>>,
                  !.runs = <<[id |-> id, head_sha |-> "a", conclusion |-> "failure"]>>]
    /\ max_flaky_retries = 1
    /\ state_file \in FoundStateFiles
    /\ out = NoOutput
    /\ gh_reruns = <<>>
    /\ surfaced = [key \in ItemKeys |-> 0]
    /\ fin = NoPureInput
    /\ fout = NoPureOutput
    /\ poll_base = 30
    /\ NoProcess

NextCrash ==
    \/ \E run_mode \in Modes : Start(run_mode)
    \/ CollectFetch
    \/ LoadFails
    \/ GatewayFails
    \/ SaveStep
    \/ SaveFails
    \/ EmitOnce
    \/ WatchEmit
    \/ WatchStop
    \/ WatchSleep
    \/ WatchWake
    \/ RetryRefuse
    \/ RerunNext
    \/ RerunFails
    \/ RerunRecord
    \/ RerunNothing
    \/ RetryResult
    \/ Interrupt
    \/ Crash
    \/ ((~Running \/ pc = "sleep") /\ PostFeedback)

SpecCrash == InitCrash /\ [][NextCrash]_vars

(***************************************************************************)
(* SpecRerun: one instance is called with --retry-failed-now over and over *)
(* on a PR whose only check failed; every gateway call and every save      *)
(* succeeds, except that `gh run rerun` may fail.                          *)
(***************************************************************************)
\* The workflow runs of the head commit: two failed runs, one, or one that
\* carries no id.
FailedRunLists ==
    {<<[id |-> 1, head_sha |-> "a", conclusion |-> "failure"],
       [id |-> 2, head_sha |-> "a", conclusion |-> "timed_out"]>>,
     <<[id |-> 1, head_sha |-> "a", conclusion |-> "failure"]>>,
     <<[id |-> NoneId, head_sha |-> "a", conclusion |-> "failure"]>>}

InitRerun ==
    /\ \E runs \in FailedRunLists :
          gw = [GatewayBase EXCEPT
                  !.checks = <<[bucket |-> "fail", state |-> "FAILURE"]>>,
                  !.runs = runs]
    /\ max_flaky_retries \in 1..MaxBudget
    /\ InitCommon

NextRerun ==
    \/ Start("retry")
    \/ CollectFetch
    \/ SaveStep
    \/ RetryRefuse
    \/ RerunNext
    \/ RerunFails
    \/ RerunRecord
    \/ RerunNothing
    \/ RetryResult
    \/ (~Running /\ PostFeedback)

SpecRerun == InitRerun /\ [][NextRerun]_vars

(***************************************************************************)
(* SpecRace: two instances on the same PR and the same state file.  One is *)
(* followed step by step; the other runs whole invocations between any two *)
(* of those steps.  Nothing in the code locks the state file.              *)
(***************************************************************************)
InitRace ==
    /\ gw = [GatewayBase EXCEPT
                !.checks = <<[bucket |-> "fail", state |-> "FAILURE"]>>,
                !.runs = <<[id |-> 1, head_sha |-> "a", conclusion |-> "failure"]>>]
    /\ max_flaky_retries = MaxBudget
    /\ InitCommon

NextRace ==
    \/ \E run_mode \in {"watch", "retry"} : Start(run_mode)
    \/ CollectFetch
    \/ SaveStep
    \/ WatchEmit
    \/ WatchStop
    \/ WatchSleep
    \/ WatchWake
    \/ RetryRefuse
    \/ RerunNext
    \/ RerunRecord
    \/ RetryResult
    \/ CollectSnapshot
    \/ RetryFailedNow
    \/ PostWatchComment

SpecRace == InitRace /\ [][NextRace]_vars

(***************************************************************************)
(* Claims about the pure functions (checked under SpecPure).               *)
(***************************************************************************)
PrIsOpen == ~fin.pr.closed /\ ~fin.pr.merged

HasNewItems == fin.new_review_items # <<>>

\* C7: whenever the PR is closed or merged, recommend_actions returns exactly
\* [process_review_comment, stop_pr_closed] if new review items exist and
\* exactly [stop_pr_closed] otherwise, whatever the checks, failed runs and
\* retry counts are.
C7_ClosedShortCircuit ==
    (fout.done /\ ~PrIsOpen) =>
        fout.actions = IF HasNewItems
                       THEN <<"process_review_comment", "stop_pr_closed">>
                       ELSE <<"stop_pr_closed">>

\* A merged PR with failing checks, an exhausted budget and a new review item.
C7_Witness ==
    /\ fout.done
    /\ fin.pr.merged /\ ~fin.pr.closed
    /\ fin.checks.failed_count > 0 /\ fin.checks.all_terminal
    /\ fin.retries_used >= fin.max_retries
    /\ HasNewItems
    /\ fout.actions = <<"process_review_comment", "stop_pr_closed">>

\* C8: for an open PR, recommend_actions returns exactly [stop_ready_to_merge]
\* when is_pr_ready_to_merge holds, and stop_ready_to_merge is in no action
\* list when it does not hold.
C8_ReadyShortCircuit ==
    fout.done =>
        /\ (PrIsOpen /\ fout.ready) => fout.actions = <<"stop_ready_to_merge">>
        /\ ~fout.ready => "stop_ready_to_merge" \notin Range(fout.actions)

\* An open PR that is ready to merge.
C8_Witness ==
    /\ fout.done /\ PrIsOpen /\ fout.ready
    /\ fout.actions = <<"stop_ready_to_merge">>

\* The conjunction merge readiness is specified as.
MergeReadiness ==
    /\ ~fin.pr.closed
    /\ ~fin.pr.merged
    /\ fin.checks.all_terminal
    /\ fin.checks.failed_count = 0
    /\ fin.checks.pending_count = 0
    /\ fin.new_review_items = <<>>
    /\ fin.pr.mergeable = "MERGEABLE"
    /\ fin.pr.merge_state_status \notin {"BLOCKED", "DIRTY", "DRAFT", "UNKNOWN"}
    /\ fin.pr.review_decision \notin {"REVIEW_REQUIRED", "CHANGES_REQUESTED"}

\* C9: is_pr_ready_to_merge is true exactly when the PR is neither closed nor
\* merged, all checks are terminal with no failed and no pending check, there
\* is no new review item, mergeable is MERGEABLE, mergeStateStatus is none of
\* BLOCKED, DIRTY, DRAFT, UNKNOWN and reviewDecision is none of
\* REVIEW_REQUIRED, CHANGES_REQUESTED.
C9_MergeReadinessPredicate ==
    fout.done => (fout.ready <=> MergeReadiness)

\* Scenario A: green checks, nothing new, MERGEABLE, CLEAN, no review decision.
C9_Witness ==
    /\ fout.done /\ fout.ready
    /\ fin.pr.merge_state_status = "CLEAN" /\ fin.pr.review_decision = ""
    /\ fin.checks.failed_count = 0 /\ fin.checks.pending_count = 0

\* What the CI-failure rule appends for the inputs under test.
CiRuleExpected ==
    IF fin.checks.all_terminal /\ fin.retries_used >= fin.max_retries
    THEN <<"stop_exhausted_retries">>
    ELSE <<"diagnose_ci_failure">>
         \o (IF fin.checks.all_terminal /\ fin.failed_runs # <<>>
                /\ fin.retries_used < fin.max_retries
             THEN <<"retry_failed_checks">>
             ELSE <<>>)

ScenarioCD ==
    /\ PrIsOpen /\ ~HasNewItems
    /\ fin.checks.failed_count = 2 /\ fin.checks.pending_count = 0 /\ fin.checks.all_terminal
    /\ Len(fin.failed_runs) = 2
    /\ fin.max_retries = 3

\* C10: for an open PR with failed_count > 0, recommend_actions appends
\* stop_exhausted_retries when the checks are all terminal and retries_used >=
\* max_retries, and otherwise diagnose_ci_failure, followed by
\* retry_failed_checks exactly when the checks are all terminal, a failed run
\* exists and retries_used < max_retries; failed:2, pending:0, two failed runs
\* and nothing new give [diagnose_ci_failure, retry_failed_checks] at 0 of 3
\* retries and [stop_exhausted_retries] at 3 of 3.
C10_CiFailureRule ==
    (fout.done /\ PrIsOpen /\ fin.checks.failed_count > 0) =>
        /\ fout.actions = (IF HasNewItems THEN <<"process_review_comment">> ELSE <<>>)
                          \o CiRuleExpected
        /\ (ScenarioCD /\ fin.retries_used = 0) =>
               fout.actions = <<"diagnose_ci_failure", "retry_failed_checks">>
        /\ (ScenarioCD /\ fin.retries_used = 3) =>
               fout.actions = <<"stop_exhausted_retries">>

\* Scenario D: the budget of 3 is used up.
C10_Witness ==
    /\ fout.done /\ ScenarioCD /\ fin.retries_used = 3
    /\ fout.actions = <<"stop_exhausted_retries">>

\* C11: recommend_actions returns exactly [idle] when and only when the PR is
\* open, merge readiness does not hold, there is no new review item and
\* failed_count = 0; idle never appears together with another action and the
\* returned list is never empty.
C11_IdleRule ==
    fout.done =>
        /\ (fout.actions = <<"idle">>) <=>
               (PrIsOpen /\ ~MergeReadiness /\ ~HasNewItems /\ fin.checks.failed_count = 0)
        /\ "idle" \in Range(fout.actions) => fout.actions = <<"idle">>
        /\ fout.actions # <<>>

\* Scenario E: an open PR with one pending check, no failed check and nothing
\* new is told to idle.
C11_Witness ==
    /\ fout.done /\ PrIsOpen /\ ~HasNewItems
    /\ fin.checks.pending_count = 1 /\ fin.checks.failed_count = 0 /\ ~fin.checks.all_terminal
    /\ fout.actions = <<"idle">>

NoDuplicates(actions) ==
    \A i, j \in DOMAIN actions : actions[i] = actions[j] => i = j

\* No evaluation of recommend_actions returns an action twice, and
\* unique_actions gives a list back when each of its actions is repeated
\* after it. (That two evaluations on the same inputs agree is true of any
\* operator, so the model has nothing to check there.)
NoActionTwice ==
    fout.done =>
        /\ NoDuplicates(fout.actions)
        /\ unique_actions(fout.actions \o fout.actions) = fout.actions

\* C25: for every input of recommend_actions, process_review_comment is in the
\* returned list exactly when new_review_items is non-empty, whatever the PR
\* lifecycle state, check counts, failed runs and retry counts are, and when
\* present it is the first action of the list.
C25_ReviewIndependentOfCi ==
    fout.done =>
        /\ ("process_review_comment" \in Range(fout.actions)) <=> HasNewItems
        /\ HasNewItems => fout.actions[1] = "process_review_comment"

\* An open PR with an exhausted retry budget and a new comment: the comment is
\* surfaced ahead of the stop.
C25_Witness ==
    /\ fout.done /\ PrIsOpen /\ HasNewItems
    /\ fout.actions = <<"process_review_comment", "stop_exhausted_retries">>

\* The stop actions.
StopActions == {"stop_pr_closed", "stop_ready_to_merge", "stop_exhausted_retries"}

\* C31: every list returned by recommend_actions contains at most one of the
\* stop actions stop_pr_closed, stop_ready_to_merge, stop_exhausted_retries;
\* stop_exhausted_retries never appears together with diagnose_ci_failure or
\* retry_failed_checks; and retry_failed_checks appears only immediately after
\* diagnose_ci_failure.
C31_ActionListShape ==
    fout.done =>
        /\ Cardinality(StopActions \cap Range(fout.actions)) <= 1
        /\ "stop_exhausted_retries" \in Range(fout.actions) =>
              /\ "diagnose_ci_failure" \notin Range(fout.actions)
              /\ "retry_failed_checks" \notin Range(fout.actions)
        /\ \A i \in DOMAIN fout.actions :
              fout.actions[i] = "retry_failed_checks" =>
                  (i > 1 /\ fout.actions[i - 1] = "diagnose_ci_failure")

\* New review items on an open PR whose failed checks may be retried: the
\* retry follows the diagnosis, and no stop action is in the list.
C31_Witness ==
    /\ fout.done
    /\ fout.actions = <<"process_review_comment", "diagnose_ci_failure", "retry_failed_checks">>
    /\ fin.retries_used < fin.max_retries

\* retry_failed_now passes its five refusal tests on the inputs under test.
PassesRefusals ==
    fout.refusal \notin {"pr_closed", "no_failed_pr_checks", "no_failed_runs",
                         "checks_still_pending", "retry_budget_exhausted"}

\* C29: for the same snapshot, whenever recommend_actions includes
\* retry_failed_checks, retry_failed_now is not refused with pr_closed,
\* no_failed_pr_checks, no_failed_runs, checks_still_pending or
\* retry_budget_exhausted; and whenever retry_failed_now passes these five
\* tests on an open PR, recommend_actions includes retry_failed_checks.
C29_RecommendationMatchesEnforcement ==
    fout.done =>
        /\ "retry_failed_checks" \in Range(fout.actions) => PassesRefusals
        /\ (PassesRefusals /\ PrIsOpen) => "retry_failed_checks" \in Range(fout.actions)

\* One retry of three used, two failed runs, all checks terminal: recommended
\* and not refused.
C29_Witness ==
    /\ fout.done /\ PrIsOpen
    /\ fin.retries_used = 1 /\ fin.max_retries = 3
    /\ Len(fin.failed_runs) = 2
    /\ "retry_failed_checks" \in Range(fout.actions)
    /\ fout.refusal = "None"

(***************************************************************************)
(* Claims about the command line (checked under SpecArgs).                 *)
(***************************************************************************)
\* How many of the three modes the command line selects.
ModesSelected ==
    (IF argv.once THEN 1 ELSE 0) + (IF argv.watch THEN 1 ELSE 0)
        + (IF argv.retry_failed_now THEN 1 ELSE 0)

\* The command lines the validation is to reject.
InvalidCommandLine ==
    \/ argv.poll_seconds <= 0
    \/ argv.max_flaky_retries < 0
    \/ ModesSelected > 1

\* The process ends at startup: nothing is fetched, read, written or printed.
RejectedAtStartup ==
    /\ pc' = "exited"
    /\ exit_code' # 0
    /\ UNCHANGED <<gw, state_file, tmp_file, out, gh_reruns, events, surfaced, rerun_calls>>

\* C21: an invocation with poll interval <= 0, with max retries < 0, or that
\* selects more than one of the three modes is rejected at startup, before any
\* gateway call and before the state file is read or written; an invocation
\* selecting no mode runs exactly the one-shot snapshot.
C21_ValidationBeforeIO ==
    [][pc = "none" /\ pc' # "none" =>
          /\ InvalidCommandLine => RejectedAtStartup
          /\ (~InvalidCommandLine /\ ModesSelected = 0) => (pc' = "fetch" /\ mode' = "once")]_vars

PrReportedClosed == gw.pr.state \in {"CLOSED", "MERGED"}

\* The gateway reports an open PR that is ready to merge.
PrReportedMergeReady ==
    is_pr_ready_to_merge(resolve_pr(gw.pr), summarize_checks(gw.checks), <<>>)

\* run_watch has emitted a stop event for this action and returned 0.
StoppedWith(action) ==
    /\ mode = "watch" /\ pc = "exited" /\ exit_code = 0
    /\ events = <<"snapshot", "stop">>
    /\ action \in Range(out.snapshot.actions)

\* The cycle that reads a closed PR, or a merge-ready PR without new review
\* items, has the stop action in its snapshot, and the cycle whose snapshot has
\* it ends the loop instead of sleeping.
C27_CycleStep ==
    /\ (mode = "watch" /\ pc = "fetch" /\ pc' # "fetch") =>
          /\ PrReportedClosed => "stop_pr_closed" \in Range(mem'.snapshot.actions)
          /\ (PrReportedMergeReady /\ mem'.snapshot.new_review_items = <<>>) =>
                "stop_ready_to_merge" \in Range(mem'.snapshot.actions)
    /\ (mode = "watch" /\ pc = "decide"
          /\ \/ "stop_pr_closed" \in Range(mem.snapshot.actions)
             \/ "stop_ready_to_merge" \in Range(mem.snapshot.actions)) =>
          /\ pc' = "exited" /\ exit_code' = 0
          /\ events' = <<"snapshot", "stop">>
          /\ slept' = slept

\* C27: if every gateway call and state save succeeds and the PR is reported
\* closed or merged from some cycle on, then, the sleep and cycle steps being
\* fair, run_watch emits a stop event whose actions contain stop_pr_closed and
\* returns 0, in the very next cycle; likewise a PR that becomes and stays
\* merge-ready with no new review items leads to a stop with
\* stop_ready_to_merge.
C27_WatchStopsOnClosedPr ==
    /\ [][C27_CycleStep]_vars
    /\ <>[]PrReportedClosed => <>StoppedWith("stop_pr_closed")
    /\ <>[]PrReportedMergeReady => <>StoppedWith("stop_ready_to_merge")

\* The PR was closed while the loop slept: the cycle after the sleep stopped.
C27_Witness ==
    /\ StoppedWith("stop_pr_closed")
    /\ PrReportedClosed
    /\ slept[1] > 0

(***************************************************************************)
(* Claims about repeated retry_failed_now calls (checked under SpecRerun). *)
(***************************************************************************)
\* C28: for a single instance with a fixed max_retries and any head SHA, over
\* any sequence of retry_failed_now calls (including calls in which a rerun
\* request for one failed run succeeds and the request for a later failed run
\* of the same call fails), the number of calls that issued at least one rerun
\* request to the gateway for that SHA is at most max_retries.
C28_RerunCyclesBounded ==
    \A sha \in SHAs : rerun_calls[sha] <= max_flaky_retries

(***************************************************************************)
(* Claims about the authors of review items (checked under SpecTrust).     *)
(***************************************************************************)
\* The authors an item may be surfaced for: an automation account whose login
\* contains the keyword, or a human who is the caller or has a trusted
\* association.
EligibleAuthor(author, association, authenticated_login) ==
    /\ author # ""
    /\ \/ EndsWithBot(author) /\ HasReviewBotKeyword(author)
       \/ /\ ~EndsWithBot(author)
          /\ \/ author = authenticated_login
             \/ association \in {"OWNER", "MEMBER", "COLLABORATOR"}

\* An invocation has printed a snapshot of the gateway as it is now.
SnapshotPrinted == out.kind \in {"snapshot", "retry"}

\* C22: an item is eligible to be surfaced as new only if its author is
\* non-empty and either the login ends with "[bot]" and contains the keyword
\* "codex", or the login does not end with "[bot]" and the author is the
\* authenticated login or the association is OWNER, MEMBER or COLLABORATOR; no
\* item from any other author appears in new_review_items, in any cycle.
C22_TrustFilter ==
    SnapshotPrinted =>
        \A i \in DOMAIN out.snapshot.new_review_items :
            EligibleAuthor(out.snapshot.new_review_items[i].author,
                           out.snapshot.new_review_items[i].author_association,
                           gw.login)

\* An automation account without the keyword but with a trusted association
\* and the review bot have both posted: only the review bot's item is printed.
C22_Witness ==
    /\ SnapshotPrinted
    /\ \E k \in Kinds : \E i \in DOMAIN gw.items[k] : gw.items[k][i].user = "dependabot[bot]"
    /\ Len(out.snapshot.new_review_items) = 1
    /\ out.snapshot.new_review_items[1].author = "Codex-Review[bot]"

\* The (kind, id) of the items on the PR whose author may be surfaced.
TrustedKeys ==
    UNION {{<<k, gw.items[k][i].id>> :
               i \in {j \in DOMAIN gw.items[k] :
                        EligibleAuthor(gw.items[k][j].user,
                                       gw.items[k][j].author_association, gw.login)}} :
           k \in Kinds}

\* The (kind, id) of the items of a list of new review items.
NewKeys(items) == {<<items[i].kind, items[i].id>> : i \in DOMAIN items}

\* The cycle that finds no state file prints every trusted item of the PR, once.
FirstCycleSurfacesAll ==
    (~state_file.exists /\ SnapshotPrinted') =>
        /\ NewKeys(out'.snapshot.new_review_items) = TrustedKeys
        /\ Len(out'.snapshot.new_review_items) = Cardinality(TrustedKeys)
        /\ state_file'.exists

\* A cycle that follows a cycle, the gateway unchanged, prints no item.
NextCycleSurfacesNone ==
    (SnapshotPrinted /\ SnapshotPrinted' /\ gw' = gw) =>
        out'.snapshot.new_review_items = <<>>

\* C23: when no state file exists, the first snapshot cycle surfaces every
\* trusted review item that already exists on the PR as new (none is silently
\* treated as already seen), and the second cycle with unchanged gateway data
\* surfaces none of them.
C23_FirstRunSurfacing == [][FirstCycleSurfacesAll /\ NextCycleSurfacesNone]_vars

\* After the second cycle on a PR with a comment by an owner and a comment by a
\* stranger: the owner's comment was printed once, by the first cycle, and
\* nothing is printed now.
C23_Witness ==
    /\ out.kind = "snapshot"
    /\ out.snapshot.new_review_items = <<>>
    /\ TrustedKeys = {<<"issue_comment", 3>>}
    /\ Len(gw.items["issue_comment"]) = 2
    /\ state_file.exists
    /\ state_file.data.seen_issue_comment_ids = <<3>>

(***************************************************************************)
(* Claims about the check summarizer (checked under SpecChecks).           *)
(***************************************************************************)
\* The entries of the list under test that count as pending, failed, passed.
PendingEntries ==
    {i \in DOMAIN fin :
        \/ fin[i].bucket = "pending"
        \/ fin[i].state \in {"QUEUED", "IN_PROGRESS", "PENDING", "WAITING", "REQUESTED"}}

FailedEntries == {i \in DOMAIN fin : fin[i].bucket = "fail"}

PassedEntries == {i \in DOMAIN fin : fin[i].bucket = "pass"}

\* C24: for every list of check entries, pending_count is the number of
\* entries whose bucket is "pending" or whose raw state is QUEUED, IN_PROGRESS,
\* PENDING, WAITING or REQUESTED, failed_count and passed_count are the numbers
\* of entries with bucket fail and pass, all_terminal holds exactly when
\* pending_count = 0, and the empty list yields all counts 0 with all_terminal
\* true.
C24_CheckSummarizer ==
    fout.done =>
        /\ fout.summary.pending_count = Cardinality(PendingEntries)
        /\ fout.summary.failed_count = Cardinality(FailedEntries)
        /\ fout.summary.passed_count = Cardinality(PassedEntries)
        /\ fout.summary.all_terminal <=> (fout.summary.pending_count = 0)
        /\ fin = <<>> =>
              fout.summary = [pending_count |-> 0, failed_count |-> 0, passed_count |-> 0,
                              all_terminal |-> TRUE]

\* A passed check still WAITING next to a failed one: one pending, one failed,
\* one passed, not terminal.
C24_Witness ==
    /\ fout.done
    /\ Len(fin) = 2
    /\ Range(fin) = {[bucket |-> "pass", state |-> "WAITING"],
                     [bucket |-> "fail", state |-> "FAILURE"]}
    /\ fout.summary = [pending_count |-> 1, failed_count |-> 1, passed_count |-> 1,
                       all_terminal |-> FALSE]

(***************************************************************************)
(* Claims about the watch loop (checked under SpecWatch).                  *)
(***************************************************************************)
\* The action list of the snapshot in memory contains a terminal stop action.
StopReached ==
    \E a \in {"stop_pr_closed", "stop_exhausted_retries", "stop_ready_to_merge"} :
        a \in Range(mem.snapshot.actions)

\* A cycle of the watch loop has emitted its snapshot and decides what follows.
C13_StopStep ==
    (mode = "watch" /\ pc = "decide" /\ exit_code' # 130) =>
        IF StopReached
        THEN /\ pc' = "exited"
             /\ exit_code' = 0
             /\ events = <<"snapshot">>
             /\ events' = <<"snapshot", "stop">>
             /\ slept' = slept
        ELSE /\ pc' = "sleep"
             /\ exit_code' = ExitNone
             /\ events' = events

\* C13: run_watch returns 0 in the first cycle whose action list contains
\* stop_pr_closed, stop_exhausted_retries or stop_ready_to_merge; in that cycle
\* it emits the snapshot event and then one stop event, the stop event is the
\* last event it emits, no sleep and no further cycle follow, and a cycle
\* without a stop action goes on to sleep instead of returning 0.
C13_WatchTermination ==
    /\ [][C13_StopStep]_vars
    /\ []((mode = "watch" /\ "stop" \in Range(events)) =>
            (pc = "exited" /\ exit_code = 0 /\ events = <<"snapshot", "stop">>))
    /\ []((mode = "watch" /\ exit_code = 0) => events = <<"snapshot", "stop">>)
    /\ [][(mode = "watch" /\ pc = "exited") => (pc' = "exited" /\ slept' = slept)]_vars

\* The loop slept at least once and then stopped on an exhausted retry budget.
C13_Witness ==
    /\ mode = "watch" /\ pc = "exited" /\ exit_code = 0
    /\ slept[1] > 0
    /\ events = <<"snapshot", "stop">>
    /\ out.snapshot.actions = <<"stop_exhausted_retries">>

\* Green as the backoff rule defines it.
GreenSnapshot ==
    /\ mem.snapshot.checks.all_terminal
    /\ mem.snapshot.checks.failed_count = 0
    /\ mem.snapshot.checks.pending_count = 0

\* The change fingerprint of the snapshot in memory: head SHA, PR state,
\* mergeable, mergeStateStatus, reviewDecision, pass/fail/pending counts,
\* (kind, id) of the new review items, action list.
Fingerprint ==
    <<mem.snapshot.pr.head_sha, mem.snapshot.pr.state, mem.snapshot.pr.mergeable,
      mem.snapshot.pr.merge_state_status, mem.snapshot.pr.review_decision,
      mem.snapshot.checks.passed_count, mem.snapshot.checks.failed_count,
      mem.snapshot.checks.pending_count,
      [i \in DOMAIN mem.snapshot.new_review_items |->
          <<mem.snapshot.new_review_items[i].kind, mem.snapshot.new_review_items[i].id>>],
      mem.snapshot.actions>>

\* The watch loop goes to sleep after this cycle.
GoesToSleep == mode = "watch" /\ pc = "decide" /\ pc' = "sleep"

\* C14: when a cycle's snapshot is green and its change fingerprint equals the
\* previous cycle's, the interval slept after the cycle is exactly
\* min(2 x the interval slept after the previous cycle, 3600).
C14_BackoffDoubling ==
    [][(GoesToSleep /\ GreenSnapshot /\ Fingerprint = last_change_key) =>
          slept'[1] = Min(2 * slept[1], 3600)]_vars

\* From a base of 1000 the loop slept 2000 and then 3600, not 4000.
C14_Witness ==
    /\ mode = "watch" /\ pc = "sleep"
    /\ poll_base = 1000
    /\ slept = <<3600, 2000>>

\* C15: after a cycle whose snapshot is not green, or whose fingerprint
\* differs from the previous cycle's, or which is the first cycle, the interval
\* slept is exactly the configured base, whatever the interval had grown to.
C15_BackoffReset ==
    [][(GoesToSleep /\ (~GreenSnapshot \/ Fingerprint # last_change_key
                          \/ last_change_key = NoKey)) =>
          slept'[1] = poll_base]_vars

\* The interval had grown to the ceiling and is back at the base of 1000
\* after a green cycle that surfaced a new comment.
C15_Witness ==
    /\ mode = "watch" /\ pc = "sleep"
    /\ poll_base = 1000
    /\ slept = <<1000, 3600>>
    /\ last_change_key[7] = 0 /\ last_change_key[8] = 0
    /\ last_change_key[9] # <<>>

\* C20: if a gateway call, the state load or the state save fails during a
\* watch cycle, run_watch performs no further cycle and no further sleep and
\* emits no snapshot or stop event for that cycle, and the process exits with
\* code 1 (130 for an interrupt); 0 is returned only when a stop action was
\* reached.
C20_WatchErrorsEndTheLoop ==
    /\ [][(mode = "watch" /\ (GatewayFails \/ LoadFails \/ SaveFails)) =>
            (/\ pc' = "exited"
             /\ exit_code' = 1
             /\ events = <<>> /\ events' = <<>>
             /\ slept' = slept)]_vars
    /\ [][(mode = "watch" /\ Interrupt) =>
            (pc' = "exited" /\ exit_code' = 130 /\ events' = events /\ slept' = slept)]_vars
    /\ [][(mode = "watch" /\ pc = "exited") => UNCHANGED <<pc, exit_code, events, slept>>]_vars
    /\ []((mode = "watch" /\ exit_code = 0) => "stop" \in Range(events))

\* The loop slept, found the state file unreadable in a later cycle and
\* ended with code 1 without an event for that cycle.
C20_Witness ==
    /\ mode = "watch" /\ pc = "exited" /\ exit_code = 1
    /\ slept[1] > 0
    /\ state_file.shape = "not_json"
    /\ events = <<>>

(***************************************************************************)
(* Claims about one instance invoked over and over on one state file.      *)
(***************************************************************************)
\* The ids of this kind the state file holds as seen (none without a file).
SeenIds(file, kind) ==
    IF file.exists THEN Range(file.data[SeenField(kind)]) ELSE {}

\* retries_by_sha[sha] in the state file, 0 without a file or an entry.
Retries(file, sha) ==
    IF file.exists /\ sha \in DOMAIN file.data.retries_by_sha
    THEN file.data.retries_by_sha[sha]
    ELSE 0

\* An invocation has just printed its output.
Printed == out.kind # "none"

HeadSha == gw.pr.headRefOid

\* No item of the new_review_items just printed was in the seen-set of its
\* kind when the invocation started.
C1_NoSeenItemIsNew ==
    out'.kind # "none" =>
        \A i \in DOMAIN out'.snapshot.new_review_items :
            LET item == out'.snapshot.new_review_items[i]
            IN  item.id \notin SeenIds(state_file, item.kind)

\* Over all cycles, each (kind, id) was in new_review_items at most once.
C1_SurfacedAtMostOnce == \A key \in ItemKeys : surfaced[key] <= 1

\* An item of a trusted author that the gateway lists was surfaced, whatever
\* ids were seen under the other kinds.
C1_KindsDoNotSuppressEachOther ==
    Printed =>
        \A kind \in Kinds :
            \A i \in DOMAIN gw.items[kind] :
                LET item == gw.items[kind][i]
                IN  (item.id # 0 /\ item.author_association = "OWNER")
                        => surfaced[<<kind, item.id>>] >= 1

\* C1: dedup is keyed by (kind, id): over any sequence of snapshot cycles and
\* retry_failed_now calls of one instance, an item whose id is in the seen-set
\* of its kind is never returned in new_review_items, each (kind, id) is
\* returned at most once over all cycles, and an id seen under one kind does
\* not suppress an item with the same id of another kind.
C1_Dedup ==
    /\ [][C1_NoSeenItemIsNew]_vars
    /\ [](C1_SurfacedAtMostOnce /\ C1_KindsDoNotSuppressEachOther)

\* A cycle that returns nothing new although the gateway lists an issue
\* comment and a review with the same id, each surfaced once before.
C1_Witness ==
    /\ out.kind = "snapshot"
    /\ out.snapshot.new_review_items = <<>>
    /\ \E i \in DOMAIN gw.items["issue_comment"], j \in DOMAIN gw.items["review"] :
          /\ gw.items["issue_comment"][i].id = gw.items["review"][j].id
          /\ gw.items["issue_comment"][i].author_association = "OWNER"
          /\ gw.items["review"][j].author_association = "OWNER"
    /\ \A kind \in {"issue_comment", "review"} :
          \A i \in DOMAIN gw.items[kind] :
              gw.items[kind][i].author_association = "OWNER"
                  => surfaced[<<kind, gw.items[kind][i].id>>] = 1

\* C2: after every operation that saves the state (a snapshot cycle, or
\* retry_failed_now with its reload and save), each of the three seen-id sets
\* is a superset of what it was before the operation.
C2_SeenSetsGrow ==
    [][\A kind \in Kinds : SeenIds(state_file, kind) \subseteq SeenIds(state_file', kind)]_vars

\* retry_failed_now reran a failed run, reloaded and saved the state, and the
\* ids seen in earlier cycles are still in the file.
C2_Witness ==
    /\ out.kind = "retry" /\ out.reason = "rerun_triggered"
    /\ out.snapshot.new_review_items = <<>>
    /\ SeenIds(state_file, "issue_comment") = {1, 2}
    /\ SeenIds(state_file, "review") # {}

C3_CounterStep ==
    /\ (out'.kind = "retry" /\ out'.reason = "rerun_triggered") =>
          /\ Len(gh_reruns') >= 1
          /\ Retries(state_file', HeadSha) = Retries(state_file, HeadSha) + 1
    /\ \A sha \in SHAs :
          Retries(state_file', sha) # Retries(state_file, sha) =>
              /\ out'.kind = "retry"
              /\ out'.reason = "rerun_triggered"
              /\ gh_reruns' # <<>>
    /\ out'.kind = "snapshot" =>
          \A sha \in SHAs : Retries(state_file', sha) = Retries(state_file, sha)

\* C3: a retry_failed_now call that requests reruns for k >= 1 failed runs
\* increases retries_by_sha[head_sha] by exactly 1, whatever k is; the counter
\* changes only in a call that issued rerun requests; a snapshot cycle, which
\* at most recommends retry_failed_checks, never changes it.
C3_RetryCounterStep == [][C3_CounterStep]_vars

\* Two failed runs were rerun in one call and the counter went from 0 to 1.
C3_Witness ==
    /\ out.kind = "retry" /\ out.reason = "rerun_triggered"
    /\ Len(gh_reruns) = 2
    /\ out.snapshot.retry_state.current_sha_retries_used = 0
    /\ Retries(state_file, HeadSha) = 1

C4_IndependentStep ==
    /\ \A sha \in SHAs :
          sha # HeadSha => Retries(state_file', sha) = Retries(state_file, sha)
    /\ (out'.kind # "none" /\ ~(state_file.exists
                                /\ HeadSha \in DOMAIN state_file.data.retries_by_sha)) =>
          out'.snapshot.retry_state.current_sha_retries_used = 0

\* C4: a rerun recorded under the head SHA leaves retries_by_sha of every
\* other SHA unchanged, and a head SHA with no entry has retries_used = 0
\* whatever the other SHAs hold: a new head commit starts again from 0.
C4_PerShaIndependence == [][C4_IndependentStep]_vars

\* The budget of commit "a" is used up, the head moved to "b", and the cycle
\* reports 0 retries used and recommends a retry.
C4_Witness ==
    /\ out.kind = "snapshot"
    /\ HeadSha = "b"
    /\ Retries(state_file, "a") = max_flaky_retries /\ max_flaky_retries > 0
    /\ out.snapshot.retry_state.current_sha_retries_used = 0
    /\ "retry_failed_checks" \in Range(out.snapshot.actions)

\* retries_by_sha as load_state reads it from the state file.
RetryMap(file) == load_state(file).state.retries_by_sha

C30_FrameStep ==
    /\ out'.kind = "snapshot" => RetryMap(state_file') = RetryMap(state_file)
    /\ (out'.kind = "retry" /\ out'.reason # "rerun_triggered") =>
          /\ RetryMap(state_file') = RetryMap(state_file)
          /\ gh_reruns' = <<>>
    /\ RetryMap(state_file') # RetryMap(state_file) =>
          /\ out'.kind = "retry" /\ out'.reason = "rerun_triggered"
          /\ DOMAIN RetryMap(state_file') = DOMAIN RetryMap(state_file) \cup {HeadSha}
          /\ \A sha \in DOMAIN RetryMap(state_file) :
                sha # HeadSha => RetryMap(state_file')[sha] = RetryMap(state_file)[sha]

\* C30: a snapshot cycle leaves every entry of retries_by_sha unchanged, and a
\* retry_failed_now call that is refused (any reason other than
\* rerun_triggered) leaves every entry unchanged and issues no rerun request;
\* only a call ending in rerun_triggered changes a counter, and only the one of
\* the current head SHA.
C30_RetryBudgetFrame == [][C30_FrameStep]_vars

\* The budget of the head commit is used up and one retry is recorded for the
\* other commit: the call was refused, no rerun was requested, both counters
\* are as they were.
C30_Witness ==
    /\ out.kind = "retry" /\ out.reason = "retry_budget_exhausted"
    /\ gh_reruns = <<>>
    /\ max_flaky_retries > 0
    /\ RetryMap(state_file)[HeadSha] = max_flaky_retries
    /\ OtherSha(HeadSha) \in DOMAIN RetryMap(state_file)

\* The conditions under which a rerun may be requested.
RerunPermitted(snapshot) ==
    /\ ~snapshot.pr.closed /\ ~snapshot.pr.merged
    /\ snapshot.checks.failed_count > 0
    /\ snapshot.checks.all_terminal
    /\ snapshot.failed_runs # <<>>
    /\ snapshot.retry_state.current_sha_retries_used < snapshot.retry_state.max_flaky_retries

\* The reason of a call that requests no rerun.
ExpectedRefusal(snapshot) ==
    IF snapshot.pr.closed \/ snapshot.pr.merged THEN "pr_closed"
    ELSE IF snapshot.checks.failed_count = 0 THEN "no_failed_pr_checks"
    ELSE IF snapshot.failed_runs = <<>> THEN "no_failed_runs"
    ELSE IF ~snapshot.checks.all_terminal THEN "checks_still_pending"
    ELSE IF snapshot.retry_state.current_sha_retries_used
              >= snapshot.retry_state.max_flaky_retries THEN "retry_budget_exhausted"
    ELSE "failed_runs_missing_ids"

\* C5: retry_failed_now sends a rerun request only when the PR is neither
\* closed nor merged, failed_count > 0, the checks are all terminal, a failed
\* run of the head SHA exists and retries_used < max_retries; in every other
\* case it sends none and its result has rerun_attempted = false and the
\* reason pr_closed, no_failed_pr_checks, no_failed_runs, checks_still_pending
\* or retry_budget_exhausted (tested in that order), or
\* failed_runs_missing_ids when no failed run has an id. A snapshot cycle
\* sends no rerun request.
C5_RerunEnforcement ==
    /\ out.kind # "retry" => gh_reruns = <<>>
    /\ out.kind = "retry" =>
          /\ gh_reruns # <<>> =>
                /\ RerunPermitted(out.snapshot)
                /\ out.rerun_attempted /\ out.reason = "rerun_triggered"
                /\ out.rerun_run_ids = gh_reruns
                /\ \A i \in DOMAIN gh_reruns :
                      \E j \in DOMAIN out.snapshot.failed_runs :
                          out.snapshot.failed_runs[j].run_id = gh_reruns[i]
          /\ gh_reruns = <<>> =>
                /\ ~out.rerun_attempted
                /\ out.reason = ExpectedRefusal(out.snapshot)
                /\ out.reason = "failed_runs_missing_ids" =>
                      \A j \in DOMAIN out.snapshot.failed_runs :
                          out.snapshot.failed_runs[j].run_id = NoneId
          /\ (RerunPermitted(out.snapshot)
                /\ \E j \in DOMAIN out.snapshot.failed_runs :
                      out.snapshot.failed_runs[j].run_id # NoneId) => gh_reruns # <<>>

\* A call refused because a check is still pending although failed runs exist
\* and the budget is not used up.
C5_Witness ==
    /\ out.kind = "retry"
    /\ out.reason = "checks_still_pending" /\ ~out.rerun_attempted /\ gh_reruns = <<>>
    /\ out.snapshot.checks.failed_count > 0
    /\ out.snapshot.failed_runs # <<>>
    /\ out.snapshot.retry_state.current_sha_retries_used
          < out.snapshot.retry_state.max_flaky_retries

\* C6: starting from no state file and with a fixed max_retries, after any
\* sequence of snapshot cycles and retry_failed_now calls of one instance,
\* retries_by_sha[sha] <= max_retries for every SHA.
C6_RetryCap ==
    \A sha \in SHAs : Retries(state_file, sha) <= max_flaky_retries

\* Both commits have used their whole budget and the next call is refused.
C6_Witness ==
    /\ max_flaky_retries > 0
    /\ \A sha \in SHAs : Retries(state_file, sha) = max_flaky_retries
    /\ out.kind = "retry" /\ out.reason = "retry_budget_exhausted"

(***************************************************************************)
(* Claims about processes that fail, are killed and are started again      *)
(* (checked under SpecCrash).                                              *)
(***************************************************************************)
\* This step prints a snapshot, or a result that carries one.
EmitsSnapshot ==
    /\ Len(events') = Len(events) + 1
    /\ events'[Len(events')] \in {"snapshot", "result"}

\* The state file holds what the printed snapshot reports: the head SHA, and
\* the id of every new review item in the seen list of its kind.
FileCovers(file, snapshot) ==
    /\ file.exists /\ file.shape = "object"
    /\ file.data.last_seen_head_sha = snapshot.pr.head_sha
    /\ \A i \in DOMAIN snapshot.new_review_items :
          snapshot.new_review_items[i].id
              \in SeenIds(file, snapshot.new_review_items[i].kind)

\* C16: the seen-set updates (and the retry increment of retry_failed_now)
\* happen before save_state, and save_state completes before the snapshot or
\* result is emitted: whenever a snapshot is emitted the state file already
\* holds the seen ids of all its new review items and the head SHA it reports,
\* and a result that reports a rerun finds the retry already counted.
C16_PersistBeforeEmit ==
    /\ [][EmitsSnapshot =>
            /\ FileCovers(state_file, out'.snapshot)
            /\ state_file' = state_file
            /\ out'.reason = "rerun_triggered" =>
                  Retries(state_file, out'.snapshot.pr.head_sha)
                      = out'.snapshot.retry_state.current_sha_retries_used + 1]_vars
    /\ []((pc \in {"mkstemp", "write", "replace"} /\ mem.after = "collected") =>
             \A i \in DOMAIN mem.snapshot.new_review_items :
                 mem.snapshot.new_review_items[i].id
                     \in Range(mem.state[SeenField(mem.snapshot.new_review_items[i].kind)]))

\* A rerun result was printed whose snapshot surfaced a comment: the file
\* holds the comment as seen and the retry as counted.
C16_Witness ==
    /\ mode = "retry" /\ pc = "exited" /\ exit_code = 0
    /\ out.reason = "rerun_triggered"
    /\ out.snapshot.new_review_items # <<>>
    /\ FileCovers(state_file, out.snapshot)
    /\ Retries(state_file, "a") = 1

\* C17: when a process was killed or ended with an error at any point of a
\* cycle and later processes run on the same state file, no review item is
\* recorded as seen without having been emitted in new_review_items at least
\* once, and no item is emitted more than twice.
C17_AtLeastOnceSurfacing ==
    ~Running =>
        \A key \in ItemKeys :
            /\ key[2] \in SeenIds(state_file, key[1]) => surfaced[key] >= 1
            /\ surfaced[key] <= 2

\* Complete is the state file as it is, or the file that holds all of the
\* state being saved.
C18_FileStep ==
    \/ state_file' = state_file
    \/ /\ pc = "replace"
       /\ state_file' = [exists |-> TRUE, shape |-> "object", data |-> mem.state]

\* C18: save_state writes the full state to a temporary sibling file and then
\* renames it over the target: at every step of every execution, a crash or a
\* failing write included, the state file is the complete previous state or the
\* complete new one, never a partial one; on a write failure the temporary file
\* is removed, the error is re-raised and the target is unchanged.
C18_AtomicSave ==
    /\ [][C18_FileStep]_vars
    /\ [][(pc \in {"mkstemp", "write"}) => state_file' = state_file]_vars
    /\ [][SaveFails =>
            /\ state_file' = state_file
            /\ ~tmp_file'.exists
            /\ pc' = "exited" /\ exit_code' = 1 /\ events' = events]_vars
    /\ [][Crash => state_file' = state_file]_vars

\* A process was killed between the write and the rename of its second save:
\* the temporary file holds the new state, the state file the previous one.
C18_Witness ==
    /\ pc = "crashed"
    /\ tmp_file.exists /\ tmp_file.shape = "object"
    /\ state_file.exists /\ state_file.shape = "object"
    /\ tmp_file.data # state_file.data

Malformed(file) == file.exists /\ file.shape # "object"

\* C19: when the state file exists but is not valid JSON or not an object,
\* load_state raises, the operation ends with exit code 1 without emitting a
\* snapshot and the state file is left exactly as it was; without a file
\* load_state returns the empty default state flagged as fresh, and a valid
\* file is returned flagged as loaded.
C19_MalformedStateIsFatal ==
    /\ [][Malformed(state_file) =>
            /\ state_file' = state_file
            /\ events' = <<>> /\ out' = NoOutput
            /\ pc' \in {"none", "fetch", "exited", "crashed"}
            /\ LoadFails => (pc' = "exited" /\ exit_code' = 1)
            /\ exit_code' # 0]_vars
    /\ [](Malformed(state_file) => ~ENABLED CollectFetch)
    /\ [](~state_file.exists =>
            load_state(state_file) = [state |-> DefaultState, fresh |-> TRUE, error |-> "None"])
    /\ []((state_file.exists /\ ~Malformed(state_file)) =>
            load_state(state_file)
                = [state |-> state_file.data, fresh |-> FALSE, error |-> "None"])

\* A rerun process found a state file that holds a JSON list and ended with
\* code 1 and no output.
C19_Witness ==
    /\ mode = "retry" /\ pc = "exited" /\ exit_code = 1
    /\ state_file.shape = "not_object"
    /\ out = NoOutput /\ events = <<>>

(***************************************************************************)
(* Claims about two instances on one state file (checked under SpecRace).  *)
(***************************************************************************)
\* A review item was printed twice.
SurfacedTwice == \E key \in ItemKeys : surfaced[key] >= 2

\* The state file counts fewer retries of the head commit than rerun cycles
\* were triggered for it.
RetryLost == Retries(state_file, HeadSha) < rerun_calls[HeadSha]

\* C26: with two instances on the same state file there is an interleaving of
\* their load and save steps in which an update persisted by one (a seen id, or
\* a retry-count increment) is overwritten by the other's later save, so that a
\* review item is surfaced twice or retries_by_sha[sha] ends below the number
\* of rerun cycles triggered; no lock prevents it, while every individual read
\* of the file still observes a complete state.  The interleaving is the state
\* C26_Witness describes; the formula is the part that holds in every state:
\* whenever either instance may read the file, the file is absent or holds a
\* complete state, and no temporary file is mistaken for it.
C26_ReadsSeeCompleteState ==
    /\ load_state(state_file).error = "None"
    /\ state_file.exists => state_file.shape = "object"

\* Both instances have ended: the owner's comment was printed twice, and two
\* rerun cycles were triggered for the head commit while the state file counts
\* one.
C26_Witness ==
    /\ pc = "exited" /\ exit_code = 0
    /\ surfaced[<<"issue_comment", 1>>] = 2
    /\ rerun_calls[HeadSha] = 2
    /\ Retries(state_file, HeadSha) = 1

(***************************************************************************)
(* Claims about the intervals of the watch loop (checked under SpecWatch). *)
(***************************************************************************)
\* C32: in watch mode, the next_poll_seconds value carried by each emitted
\* snapshot event equals the number of seconds the loop actually sleeps after
\* that event before starting the next cycle.
C32_ReportedIntervalIsSlept ==
    [][(mode = "watch" /\ pc = "decide" /\ pc' = "sleep") =>
          slept'[1] = out.next_poll_seconds]_vars

\* C33: for every positive configured base interval (including a base larger
\* than the one-hour ceiling) and every sequence of snapshots, each interval
\* slept by run_watch is at least the configured base interval.
C33_NeverFasterThanBase ==
    (mode = "watch" /\ slept[1] > 0) => slept[1] >= poll_base

====
